---------------------------- MODULE Spec2Model ----------------------------
(***************************************************************************)
(* A model of deej's control pipeline: the serial line decoder             *)
(* (pkg/deej/serial.go), the significance test (pkg/deej/util/util.go),    *)
(* the slider mapping (pkg/deej/slider_map.go) and the session map         *)
(* (sessionMap, its refresh policy and target resolution).                 *)
(*                                                                         *)
(* Serial lines and target names are TLA+ strings; a character is a        *)
(* string of length one.  float32 values are integers counting units of    *)
(* 2^-29 (see the float32 section).                                        *)
(***************************************************************************)
EXTENDS Integers, Sequences, FiniteSets, TLC

VARIABLES
    \* ---- SerialIO (serial.go:20-36)
    connected,                   \* sio.connected: a readLoop holds the connection
    lastKnownNumSliders,         \* sio.lastKnownNumSliders
    currentSliderPercentValues,  \* sio.currentSliderPercentValues
    \* ---- CanonicalConfig (config.go:17-22)
    SliderMapping,               \* cc.SliderMapping.m : slider index -> targets
    InvertSliders,               \* cc.InvertSliders
    NoiseReductionLevel,         \* cc.NoiseReductionLevel
    \* ---- sessionMap (part_005:29-37) and its collaborators
    m,                           \* m.m : key -> sequence of sessions
    unmappedSessions,            \* m.unmappedSessions
    lastSessionRefresh,          \* m.lastSessionRefresh (seconds)
    now,                         \* time.Now() (seconds)
    currentWindow,               \* what util.GetCurrentWindowProcessNames returns
    nQueries,                    \* GetAllSessions calls made so far
    refreshCall,                 \* caller -> where its refreshSessions call stands
    releases,                    \* session -> number of Release() calls on it
    volume,                      \* session -> what GetVolume() returns
    panicked,                    \* an index-out-of-range panic has ended the process
    \* ---- observation of the last operation (history, read by the properties)
    lastLine,                    \* the line most recently handed to the decoder
    lastRepeat,                  \* how often in a row it has been read (1, 2 = twice or more)
    lastAccepted,                \* the most recent well-formed, in-range wire line
    prevNumSliders,              \* lastKnownNumSliders before that line
    prevValues,                  \* currentSliderPercentValues before that line
    lastCollected,               \* the events processLine had appended to `events` for that line
    lastEvents,                  \* the events that line sent to the consumers
    lastDelivered,               \* slider id -> value of the last event sent for it
    lastRefresh,                 \* the refreshSessions call that returned last
    falseCalls,                  \* the last two refreshSessions(false) calls that returned
    sdArgs,                      \* a SignificantlyDifferent call: <<old, new, level>>, in thousandths
    sdResult,                    \* <<what it returned>>, <<>> before it returns
    \* ---- operations called on their own
    normArg,                     \* rawValue (serial.go:194): the integer a field was parsed to
    normResult,                  \* scaledValue (serial.go:200): <<its normalized value>>, <<>> before it is computed
    resolveCall,                 \* the last resolveTarget call: its argument, its result, and
                                 \* the mapping and foreground answer it was made under
    populated,                   \* the last getAndAddSessions: the mapping it read, what the
                                 \* query answered and whether it returned without error
    \* ---- the slider-move channel and its consumer (serial.go:211-215, part_005:117-128)
    pending,                     \* processLine's send loop: the events still to be sent
    consumer,                    \* the consumer goroutine: where it stands, and its event
    emitted,                     \* history: every event a send loop was started with, in order
    handled,                     \* history: every event the consumer has received, in order
    completed,                   \* history: how many handleSliderMoveEvent calls have returned
    calls,                       \* history: for each event received, the calls made for it
    \* ---- the connection and the shutdown (serial.go:27-30, deej.go:129-186)
    conn,                        \* sio.conn: "nil" or the handle of the port
    portOpen,                    \* the port behind the handle has not been closed
    readLoop,                    \* the readLoop goroutine: where it stands
    runPc,                       \* Deej.run and the stop() it calls: where they stand
    \* ---- the configuration sources and the load (config.go:110-171, slider_map.go:24-58)
    userConfig,                  \* config.yaml: whether it exists, and its slider_mapping
    internalConfig,              \* preferences.yaml: its slider_mapping
    loading,                     \* the Load call: where it stands, and its resultMap
    sliderGot,                   \* the last get on cc.SliderMapping by a consumer
    \* ---- a lookup in the session map by another goroutine (part_005:281-287)
    lookup,                      \* the last get(key): its answer and the refreshes under way
    \* ---- Start, the config-reload goroutine and the decode loops (serial.go:66-151)
    reconnect                    \* the Start calls, the reload goroutine, the open ports, the live readLoops

serialVars == <<connected, lastKnownNumSliders, currentSliderPercentValues>>
configVars == <<SliderMapping, InvertSliders, NoiseReductionLevel>>
sessionVars == <<m, unmappedSessions, lastSessionRefresh, now, currentWindow,
                 nQueries, refreshCall, releases, volume>>
lineObsVars == <<lastLine, lastRepeat, lastAccepted, prevNumSliders, prevValues,
                 lastCollected, lastEvents, lastDelivered>>
refreshObsVars == <<lastRefresh, falseCalls>>
sdVars == <<sdArgs, sdResult>>
normVars == <<normArg, normResult>>
resolveVars == <<resolveCall, populated>>
consumerVars == <<pending, consumer, emitted, handled, completed, calls>>
harnessVars == <<normVars, resolveVars, consumerVars>>
lifecycleVars == <<conn, portOpen, readLoop, runPc>>
loadVars == <<userConfig, internalConfig, loading, sliderGot>>
otherVars == <<lifecycleVars, loadVars, lookup, reconnect>>
vars == <<serialVars, configVars, sessionVars, lineObsVars, refreshObsVars, sdVars,
          harnessVars, panicked, otherVars>>

-----------------------------------------------------------------------------
(***************************************************************************)
(* float32.  A float32 value v is the integer v * 2^29.  Every float32 of  *)
(* magnitude in [2^-6, 2] and 0 is such an integer, and so is every        *)
(* hundredth k/100 rounded to float32 (0.01 rounds to an even multiple of  *)
(* 2^-30).  Rounding is IEEE round-to-nearest, ties to even, to 24         *)
(* significant bits.  Sums stay below 2^31.                                *)
(***************************************************************************)
One == 2^29

F32Mantissa == 2^24

Abs(x) == IF x < 0 THEN -x ELSE x

\* the spacing of float32 values around the magnitude a (in units): 2^k, k >= 0
RECURSIVE F32Spacing(_, _)
F32Spacing(a, s) == IF a \div s < F32Mantissa THEN s ELSE F32Spacing(a, 2 * s)

\* a + f (a >= 0 a whole number of units, f in [0,1) given as num/den) rounded to float32
F32RoundFrac(a, num, den) ==
    LET s    == F32Spacing(a, 1)
        q    == a \div s
        twoR == 2 * (a % s)          \* twice the remainder's whole part
        up   == \/ twoR > s
                \/ twoR = s /\ (num > 0 \/ q % 2 = 1)
                \/ twoR = s - 1 /\ (2 * num > den \/ (2 * num = den /\ q % 2 = 1))
    IN  IF up THEN (q + 1) * s ELSE q * s

\* an exact number of units rounded to float32
F32Round(x) == IF x < 0 THEN -F32RoundFrac(-x, 0, 1) ELSE F32RoundFrac(x, 0, 1)

\* float32 subtraction a - b
F32Sub(a, b) == F32Round(a - b)

\* one step of long division: p = <<q, r>> becomes <<q', r'>> with
\* (q * d + r) * 2^k = q' * d + r', 0 <= r' < d   (d < 2^23, k <= 8)
LongDivStep(p, d, k) == <<p[1] * 2^k + (p[2] * 2^k) \div d, (p[2] * 2^k) % d>>

\* <<q, r>> with n * 2^29 = q * d + r, 0 <= r < d   (0 <= n <= d < 2^23)
LongDiv(n, d) ==
    LongDivStep(LongDivStep(LongDivStep(LongDivStep(<<n \div d, n % d>>, d, 8), d, 8), d, 8), d, 5)

\* the float32 nearest to n/d   (0 <= n <= d)
F32Ratio(n, d) == LET p == LongDiv(n, d) IN F32RoundFrac(p[1], p[2], d)

\* x units >= the decimal n/d, for x >= 0: x >= ceil(n/d * 2^29)
GeDecimal(x, n, d) == LET p == LongDiv(n, d)
                      IN  x >= p[1] + (IF p[2] > 0 THEN 1 ELSE 0)

\* floor(v * 100) for a value of v units, v in [0, 1]
FloorTimes100(v) == ((v \div 128) * 100 + ((v % 128) * 100) \div 128) \div (One \div 128)

-----------------------------------------------------------------------------
(***************************************************************************)
(* util.go                                                                 *)
(***************************************************************************)

\* a NormalizeScalar that rounds to the nearest hundredth: math.Round for math.Floor
NormalizeScalarRounding(v) == F32Ratio(FloorTimes100(v + One \div 200), 100)

\* NormalizeScalar(v): float32(math.Floor(float64(v)*100) / 100.0)
NormalizeScalar(v) == F32Ratio(FloorTimes100(v), 100)

\* getSignificantDifferenceThreshold: the threshold in thousandths
getSignificantDifferenceThreshold(noiseReductionLevel) ==
    CASE noiseReductionLevel = "high" -> 35
      [] noiseReductionLevel = "low" -> 15
      [] OTHER -> 25

\* almostEquals(a, b): math.Abs(float64(a-b)) < 0.000001
almostEquals(a, b) == ~GeDecimal(Abs(F32Sub(a, b)), 1, 1000000)

\* SignificantlyDifferent(old, new, noiseReductionLevel)
SignificantlyDifferent(old, new, noiseReductionLevel) ==
    LET threshold == getSignificantDifferenceThreshold(noiseReductionLevel)
    IN  IF GeDecimal(Abs(F32Sub(old, new)), threshold, 1000)
        THEN TRUE
        ELSE \/ almostEquals(new, One) /\ old # One
             \/ almostEquals(new, 0) /\ old # 0

-----------------------------------------------------------------------------
(***************************************************************************)
(* Strings: what regexp, strings and strconv do to a line.                 *)
(***************************************************************************)
Char(s, i) == SubSeq(s, i, i)

Digits == {"0", "1", "2", "3", "4", "5", "6", "7", "8", "9"}

DigitValue(c) ==
    CASE c = "0" -> 0 [] c = "1" -> 1 [] c = "2" -> 2 [] c = "3" -> 3 [] c = "4" -> 4
      [] c = "5" -> 5 [] c = "6" -> 6 [] c = "7" -> 7 [] c = "8" -> 8 [] c = "9" -> 9

\* the number of digits of s from position i on
RECURSIVE DigitRun(_, _)
DigitRun(s, i) == IF i <= Len(s) /\ Char(s, i) \in Digits THEN 1 + DigitRun(s, i + 1) ELSE 0

\* s from position i on matches  \d{1,4}(\|\d{1,4})*\r\n$
RECURSIVE MatchFieldsFrom(_, _)
MatchFieldsFrom(s, i) ==
    LET n == DigitRun(s, i)
    IN  /\ n \in 1..4
        /\ \/ SubSeq(s, i + n, Len(s)) = "\r\n"
           \/ /\ i + n <= Len(s)
              /\ Char(s, i + n) = "|"
              /\ MatchFieldsFrom(s, i + n + 1)

\* a pattern that lets the CR go:  ^\d{1,4}(\|\d{1,4})*\r?\n$
RECURSIVE MatchFieldsLaxFrom(_, _)
MatchFieldsLaxFrom(s, i) ==
    LET n == DigitRun(s, i)
    IN  /\ n \in 1..4
        /\ \/ SubSeq(s, i + n, Len(s)) \in {"\r\n", "\n"}
           \/ /\ i + n <= Len(s)
              /\ Char(s, i + n) = "|"
              /\ MatchFieldsLaxFrom(s, i + n + 1)

expectedLinePatternLax(line) == MatchFieldsLaxFrom(line, 1)

\* expectedLinePattern.MatchString(line):  ^\d{1,4}(\|\d{1,4})*\r\n$
expectedLinePattern(line) == MatchFieldsFrom(line, 1)

\* strings.HasPrefix / HasSuffix / TrimPrefix / TrimSuffix
HasPrefix(s, prefix) == Len(s) >= Len(prefix) /\ SubSeq(s, 1, Len(prefix)) = prefix
HasSuffix(s, suffix) ==
    Len(s) >= Len(suffix) /\ SubSeq(s, Len(s) - Len(suffix) + 1, Len(s)) = suffix
TrimPrefix(s, prefix) == IF HasPrefix(s, prefix) THEN SubSeq(s, Len(prefix) + 1, Len(s)) ELSE s
TrimSuffix(s, suffix) == IF HasSuffix(s, suffix) THEN SubSeq(s, 1, Len(s) - Len(suffix)) ELSE s

\* the position of the first sep in s at or after i, or 0
RECURSIVE IndexFrom(_, _, _)
IndexFrom(s, sep, i) ==
    IF i > Len(s) THEN 0
    ELSE IF Char(s, i) = sep THEN i ELSE IndexFrom(s, sep, i + 1)

\* strings.Split(s, sep) for a one-character sep
RECURSIVE Split(_, _)
Split(s, sep) ==
    LET k == IndexFrom(s, sep, 1)
    IN  IF k = 0 THEN <<s>>
        ELSE <<SubSeq(s, 1, k - 1)>> \o Split(SubSeq(s, k + 1, Len(s)), sep)

\* the value of a string of digits
RECURSIVE DigitsValue(_, _)
DigitsValue(s, n) == IF n = 0 THEN 0 ELSE 10 * DigitsValue(s, n - 1) + DigitValue(Char(s, n))

\* strconv.Atoi(s) for an unsigned s of at most 9 characters: [err, val]
Atoi(s) ==
    IF Len(s) >= 1 /\ DigitRun(s, 1) = Len(s)
    THEN [err |-> FALSE, val |-> DigitsValue(s, Len(s))]
    ELSE [err |-> TRUE, val |-> 0]

UpperCase == "ABCDEFGHIJKLMNOPQRSTUVWXYZ"
LowerCase == "abcdefghijklmnopqrstuvwxyz"
UpperChars == {Char(UpperCase, i) : i \in 1..Len(UpperCase)}

LowerChar(c) ==
    IF c \in UpperChars THEN Char(LowerCase, IndexFrom(UpperCase, c, 1)) ELSE c

\* strings.ToLower(s)
RECURSIVE ToLower(_)
ToLower(s) ==
    IF \A i \in 1..Len(s) : Char(s, i) \notin UpperChars THEN s
    ELSE LowerChar(Char(s, 1)) \o ToLower(SubSeq(s, 2, Len(s)))

-----------------------------------------------------------------------------
(***************************************************************************)
(* Bounds and input sets.                                                  *)
(***************************************************************************)
MaxSliders == 2

MaxQueries == 3

MaxNow == 6

\* the field texts a line is made of: 0.50, 1.00 and one out of range
FieldTexts == {"512", "1023", "2000"}

RECURSIVE JoinFields(_, _)
JoinFields(fs, i) == IF i = Len(fs) THEN fs[i] ELSE fs[i] \o "|" \o JoinFields(fs, i + 1)

FieldLists == UNION {[1..n -> FieldTexts] : n \in 1..MaxSliders}

\* what reader.ReadString('\n') can return: everything up to and including a LF.
\* Every list of fields terminated by CR LF, and lines outside the wire grammar.
WireLines == {JoinFields(fs, 1) \o "\r\n" : fs \in FieldLists}
                 \cup {"512\n", "\r\n", "5x\r\n", "12345\r\n"}

\* what processLine is called with when it is called on its own: lines with
\* their CR LF, and some of them without it
AnyLines == WireLines \cup {"", "512", "512|1023", "5x"}

NoiseLevels == {"low", "default", "high", ""}

\* slider index -> targets
MasterAndChrome == (0 :> <<"master">> @@ 1 :> <<"chrome.exe">>)


\* the key lists a discovery query can return
MasterAndTwoChromes == <<"master", "chrome.exe", "chrome.exe">>

\* a master session, an application no slider is mapped to, and a device
MasterSpotifyAndSpeakers == <<"master", "spotify.exe", "speakers (realtek audio)">>

\* what GetAllSessions can answer: an error, or the sessions it found
FinderOutcomes == {[err |-> TRUE, keys |-> <<>>],
                   [err |-> FALSE, keys |-> MasterAndTwoChromes]}

\* what util.GetCurrentWindowProcessNames can answer: an error, or the process
\* names of the foreground window (a process and its child)
NoWindow == [err |-> TRUE, names |-> <<>>]

WindowOutcomes == {NoWindow, [err |-> FALSE, names |-> <<"Spotify.exe", "spotify.exe">>]}

\* slider mappings with group targets, special targets and mixed case
ChromeUnmappedAndCurrent ==
    (0 :> <<"Chrome.exe", "deej.unmapped">> @@ 1 :> <<"deej.current">>)

MasterAndMixedCaseCurrent == (0 :> <<"master">> @@ 1 :> <<"Deej.Current">>)

TargetMappings == {MasterAndChrome, ChromeUnmappedAndCurrent, MasterAndMixedCaseCurrent}

\* the names resolveTarget is called with
ResolveNames == {"Chrome.exe", "deej.current", "Deej.Current", "deej.unmapped",
                 "DEEJ.UNMAPPED", "deej.other", "deej."}

\* the volume a newly discovered session reports
DiscoveredVolume == F32Ratio(30, 100)

Range(f) == {f[x] : x \in DOMAIN f}

-----------------------------------------------------------------------------
(***************************************************************************)
(* serial.go: the decoder                                                  *)
(***************************************************************************)
SliderMoveEvent(id, value) == [SliderID |-> id, PercentValue |-> value]

\* a loop that lets a field above 1023 through
RECURSIVE processFieldsUnchecked(_, _, _, _)
processFieldsUnchecked(values, i, cache, events) ==
    IF i > Len(values) THEN [done |-> TRUE, cache |-> cache, events |-> events]
    ELSE LET rawValue == Atoi(values[i])
         IN  IF rawValue.err
             THEN [done |-> FALSE, cache |-> cache, events |-> events]
             ELSE LET normalized  == IF rawValue.val > 1023
                                     THEN F32Ratio((rawValue.val * 100) \div 1023, 100)
                                     ELSE NormalizeScalar(F32Ratio(rawValue.val, 1023))
                      scaledValue == IF InvertSliders THEN F32Sub(One, normalized)
                                                      ELSE normalized
                  IN  IF SignificantlyDifferent(cache[i], scaledValue, NoiseReductionLevel)
                      THEN processFieldsUnchecked(values, i + 1,
                                         [cache EXCEPT ![i] = scaledValue],
                                         Append(events, SliderMoveEvent(i - 1, scaledValue)))
                      ELSE processFieldsUnchecked(values, i + 1, cache, events)

\* the loop of processLine over values[i..]: the cache, the events collected,
\* and whether the loop ran to its end (no invalid field made it return)
RECURSIVE processFields(_, _, _, _)
processFields(values, i, cache, events) ==
    IF i > Len(values) THEN [done |-> TRUE, cache |-> cache, events |-> events]
    ELSE LET rawValue == Atoi(values[i])
         IN  IF rawValue.err \/ rawValue.val > 1023
             THEN [done |-> FALSE, cache |-> cache, events |-> events]
             ELSE LET normalized  == NormalizeScalar(F32Ratio(rawValue.val, 1023))
                      scaledValue == IF InvertSliders THEN F32Sub(One, normalized)
                                                      ELSE normalized
                  IN  IF SignificantlyDifferent(cache[i], scaledValue, NoiseReductionLevel)
                      THEN processFields(values, i + 1,
                                         [cache EXCEPT ![i] = scaledValue],
                                         Append(events, SliderMoveEvent(i - 1, scaledValue)))
                      ELSE processFields(values, i + 1, cache, events)

\* a processLine that sends what it has collected when it meets an invalid field
processLineSendingPartial(line) ==
    IF ~expectedLinePattern(line)
    THEN [num |-> lastKnownNumSliders, values |-> currentSliderPercentValues,
          collected |-> <<>>, events |-> <<>>]
    ELSE LET values     == Split(line, "|")
             numSliders == Len(values)
             cache      == IF numSliders # lastKnownNumSliders
                           THEN [i \in 1..numSliders |-> -One]
                           ELSE currentSliderPercentValues
             r          == processFields(values, 1, cache, <<>>)
         IN  [num |-> numSliders, values |-> r.cache, collected |-> r.events,
              events |-> r.events]

\* processLine(line): the new lastKnownNumSliders and currentSliderPercentValues,
\* and the events sent to the consumers
processLine(line) ==
    IF ~expectedLinePattern(line)
    THEN [num |-> lastKnownNumSliders, values |-> currentSliderPercentValues,
          collected |-> <<>>, events |-> <<>>]
    ELSE LET values     == Split(line, "|")
             numSliders == Len(values)
             cache      == IF numSliders # lastKnownNumSliders
                           THEN [i \in 1..numSliders |-> -One]
                           ELSE currentSliderPercentValues
             r          == processFields(values, 1, cache, <<>>)
         IN  [num |-> numSliders, values |-> r.cache, collected |-> r.events,
              events |-> IF r.done THEN r.events ELSE <<>>]

\* ---- what the properties call a line (spec section 6)
\* the fields of a wire line
WireFields(wire) == Split(TrimSuffix(wire, "\r\n"), "|")

\* the wire grammar: fields of one to four digits, separated by "|", then CR LF
WireGrammar(wire) ==
    /\ HasSuffix(wire, "\r\n")
    /\ \A i \in 1..Len(WireFields(wire)) :
          LET f == WireFields(wire)[i] IN Len(f) \in 1..4 /\ DigitRun(f, 1) = Len(f)

\* a line of the wire grammar with every field in 0..1023
WireValid(wire) ==
    /\ WireGrammar(wire)
    /\ \A i \in 1..Len(WireFields(wire)) : Atoi(WireFields(wire)[i]).val <= 1023

\* the value a field text stands for under the configuration
ScaledField(text) ==
    LET normalized == NormalizeScalar(F32Ratio(Atoi(text).val, 1023))
    IN  IF InvertSliders THEN F32Sub(One, normalized) ELSE normalized

RECURSIVE Deliver(_, _, _)
Deliver(delivered, events, i) ==
    IF i > Len(events) THEN delivered
    ELSE Deliver((events[i].SliderID :> events[i].PercentValue) @@ delivered, events, i + 1)

\* the decoder takes `line` (what processLine is called with) for the wire line `wire`
Decode(wire, line) ==
    LET r == processLine(line)
    IN  /\ lastKnownNumSliders' = r.num
        /\ currentSliderPercentValues' = r.values
        /\ lastLine' = wire
        /\ lastRepeat' = IF lastRepeat > 0 /\ wire = lastLine THEN 2 ELSE 1
        /\ prevNumSliders' = lastKnownNumSliders
        /\ prevValues' = currentSliderPercentValues
        /\ lastCollected' = r.collected
        /\ lastEvents' = r.events
        /\ lastDelivered' = Deliver(lastDelivered, r.events, 1)

\* a closeConnection that leaves the connection marked as active
closeConnectionLeavingFlag ==
    [conn |-> "nil", connected |-> connected,
     portOpen |-> IF conn # "nil" THEN FALSE ELSE portOpen]

\* closeConnection (serial.go:219-229): Close() on the handle if there is one,
\* then conn = nil and connected = false
closeConnection ==
    [conn |-> "nil", connected |-> FALSE,
     portOpen |-> IF conn # "nil" THEN FALSE ELSE portOpen]

\* readLoop, default branch, with nothing waiting on stopChannel: a line is
\* read and processed, and the loop is back at its select
ReadLine(wire) ==
    /\ connected
    /\ readLoop = "select"
    /\ runPc # "sending"
    /\ Decode(wire, TrimSuffix(wire, "\r\n"))
    /\ lastAccepted' = IF WireValid(wire) THEN wire ELSE lastAccepted
    /\ UNCHANGED <<connected, configVars, sessionVars, refreshObsVars, sdVars, harnessVars, panicked,
                   otherVars>>

\* readLoop, default branch: the read fails; closeConnection, and the loop returns
ReadError ==
    /\ readLoop = "select"
    /\ runPc # "sending"
    /\ conn' = closeConnection.conn
    /\ connected' = closeConnection.connected
    /\ portOpen' = closeConnection.portOpen
    /\ readLoop' = "done"
    /\ UNCHANGED <<lastKnownNumSliders, currentSliderPercentValues, configVars,
                   sessionVars, lineObsVars, refreshObsVars, sdVars, harnessVars, panicked,
                   runPc, loadVars, lookup, reconnect>>

\* ---- the shutdown: readLoop step by step, Deej.run, Deej.stop and SerialIO.Stop
\* everything but the decoder and the connection
ShutdownFrame ==
    UNCHANGED <<configVars, sessionVars, refreshObsVars, sdVars, harnessVars, panicked,
                loadVars, lookup, reconnect>>

\* the interrupt handler calls signalStop (deej.go:122-126, 167-170) and run
\* receives from d.stopChannel (deej.go:140): run goes on to d.stop()
Interrupt ==
    /\ runPc = "waiting"
    /\ runPc' = "stopping"
    /\ UNCHANGED <<serialVars, lineObsVars, conn, portOpen, readLoop>>
    /\ ShutdownFrame

\* d.stop() up to sio.Stop()'s test of sio.connected (deej.go:172-176,
\* serial.go:106-113): with a connection, Stop goes to `sio.stopChannel <- true`
StopSerial ==
    /\ runPc = "stopping"
    /\ runPc' = IF connected THEN "sending" ELSE "releasing"
    /\ UNCHANGED <<serialVars, lineObsVars, conn, portOpen, readLoop>>
    /\ ShutdownFrame

\* readLoop at its select while Stop waits in its send (serial.go:158-161):
\* the stop case is taken, closeConnection, the loop returns; Stop returns
ReadLoopStop ==
    /\ readLoop = "select"
    /\ runPc = "sending"
    /\ conn' = closeConnection.conn
    /\ connected' = closeConnection.connected
    /\ portOpen' = closeConnection.portOpen
    /\ readLoop' = "done"
    /\ runPc' = "releasing"
    /\ UNCHANGED <<lastKnownNumSliders, currentSliderPercentValues, lineObsVars>>
    /\ ShutdownFrame

\* readLoop at its select with nothing to receive (serial.go:162-163): the
\* default branch is taken and the loop waits in reader.ReadString
ReadLoopDefault ==
    /\ readLoop = "select"
    /\ runPc \notin {"sending", "exited"}
    /\ readLoop' = "read"
    /\ UNCHANGED <<serialVars, lineObsVars, conn, portOpen, runPc>>
    /\ ShutdownFrame

\* a line arrives at the port: ReadString returns it, processLine, and the
\* loop is back at its select (serial.go:163-169)
ReadLoopLine(wire) ==
    /\ readLoop = "read"
    /\ runPc # "exited"
    /\ Decode(wire, TrimSuffix(wire, "\r\n"))
    /\ lastAccepted' = IF WireValid(wire) THEN wire ELSE lastAccepted
    /\ readLoop' = "select"
    /\ UNCHANGED <<connected, conn, portOpen, runPc>>
    /\ ShutdownFrame

\* ReadString returns an error (serial.go:164-168): closeConnection, the loop returns
ReadLoopError ==
    /\ readLoop = "read"
    /\ runPc # "exited"
    /\ conn' = closeConnection.conn
    /\ connected' = closeConnection.connected
    /\ portOpen' = closeConnection.portOpen
    /\ readLoop' = "done"
    /\ UNCHANGED <<lastKnownNumSliders, currentSliderPercentValues, lineObsVars, runPc>>
    /\ ShutdownFrame

\* the rest of d.stop() and os.Exit (deej.go:178-185, 143-148): the process,
\* and every goroutine with it, is over
Exit ==
    /\ runPc = "releasing"
    /\ runPc' = "exited"
    /\ UNCHANGED <<serialVars, lineObsVars, conn, portOpen, readLoop>>
    /\ ShutdownFrame

\* processLine called on its own
CallProcessLine(line) ==
    /\ Decode(line, line)
    /\ UNCHANGED <<lastAccepted, connected, configVars, sessionVars, refreshObsVars, sdVars, harnessVars, panicked,
                   otherVars>>

-----------------------------------------------------------------------------
(***************************************************************************)
(* The session map (sessionMap)                                            *)
(***************************************************************************)
masterSessionName == "master"
systemSessionName == "system"
inputSessionName == "mic"
specialTargetTransformPrefix == "deej."
specialTargetCurrentWindow == "current"
specialTargetAllUnmapped == "unmapped"

\* seconds
minTimeBetweenSessionRefreshes == 5

maxTimeBetweenSessionRefreshes == 45

EmptyMap == <<>>

\* a session: the q-th query's i-th result
Session(q, i, key) == [q |-> q, i |-> i, key |-> key]

\* the sessions held in a map
SessionsOf(mm) == UNION {Range(mm[k]) : k \in DOMAIN mm}

\* s from position i on matches  .+ \(.+\)$  with the " (" at or after i
RECURSIVE MatchDeviceFrom(_, _)
MatchDeviceFrom(s, i) ==
    /\ i + 3 <= Len(s)
    /\ \/ SubSeq(s, i, i + 1) = " (" /\ Char(s, Len(s)) = ")"
       \/ MatchDeviceFrom(s, i + 1)

\* deviceSessionKeyPattern.MatchString(key):  ^.+ \(.+\)$   (keys hold no line break)
deviceSessionKeyPattern(key) == MatchDeviceFrom(key, 2)

targetHasSpecialTransform(target) == HasPrefix(target, specialTargetTransformPrefix)

\* getCurrentWindowProcessNames: lowercased, duplicates removed; nil on error
RECURSIVE UniqString(_)
UniqString(names) ==
    IF names = <<>> THEN <<>>
    ELSE LET front == UniqString(SubSeq(names, 1, Len(names) - 1))
             last  == names[Len(names)]
         IN  IF last \in Range(front) THEN front ELSE Append(front, last)

getCurrentWindowProcessNames ==
    IF currentWindow.err THEN <<>>
    ELSE UniqString([i \in 1..Len(currentWindow.names) |-> ToLower(currentWindow.names[i])])

\* getUnmappedSessionKeys, m.unmappedSessions being `unmapped`
getUnmappedSessionKeys(unmapped) == [i \in 1..Len(unmapped) |-> unmapped[i].key]

applyTargetTransform(specialTargetName, unmapped) ==
    CASE specialTargetName = specialTargetCurrentWindow -> getCurrentWindowProcessNames
      [] specialTargetName = specialTargetAllUnmapped -> getUnmappedSessionKeys(unmapped)
      [] OTHER -> <<>>

\* a resolveTarget that does not lowercase the name
resolveTargetCaseSensitive(target, unmapped) ==
    IF targetHasSpecialTransform(target)
    THEN applyTargetTransform(TrimPrefix(target, specialTargetTransformPrefix), unmapped)
    ELSE <<target>>

resolveTarget(target, unmapped) ==
    LET lower == ToLower(target)
    IN  IF targetHasSpecialTransform(lower)
        THEN applyTargetTransform(TrimPrefix(lower, specialTargetTransformPrefix), unmapped)
        ELSE <<lower>>

\* sessionMapped: the target is resolved and compared (part_005:160-169), its
\* resolution is not empty and its first element is the key
targetMatches(target, key, unmapped) ==
    /\ ~targetHasSpecialTransform(target)
    /\ LET resolved == resolveTarget(target, unmapped)
       IN  resolved # <<>> /\ resolved[1] = key

\* sessionMapped(session), for a session with this key
sessionMapped(key, unmapped) ==
    \/ key \in {masterSessionName, systemSessionName, inputSessionName}
    \/ deviceSessionKeyPattern(key)
    \/ \E sliderIdx \in DOMAIN SliderMapping :
         \E t \in 1..Len(SliderMapping[sliderIdx]) :
            targetMatches(SliderMapping[sliderIdx][t], key, unmapped)

\* sessionMapped(session) panics: m.resolveTarget(target)[0] (part_005:165) is
\* evaluated on an empty resolution; a slider's targets are tried in order
\* until one matches, and every slider is visited
sessionMappedPanics(key, unmapped) ==
    /\ key \notin {masterSessionName, systemSessionName, inputSessionName}
    /\ ~deviceSessionKeyPattern(key)
    /\ \E sliderIdx \in DOMAIN SliderMapping :
         \E t \in 1..Len(SliderMapping[sliderIdx]) :
            LET target == SliderMapping[sliderIdx][t]
            IN  /\ ~targetHasSpecialTransform(target)
                /\ resolveTarget(target, unmapped) = <<>>
                /\ \A u \in 1..(t - 1) :
                      ~targetMatches(SliderMapping[sliderIdx][u], key, unmapped)

\* add(value) on the map mm
add(mm, value) ==
    IF value.key \notin DOMAIN mm
    THEN (value.key :> <<value>>) @@ mm
    ELSE [mm EXCEPT ![value.key] = Append(@, value)]

\* get(key): [ok, sessions]
get(key) ==
    IF key \in DOMAIN m THEN [ok |-> TRUE, sessions |-> m[key]]
                        ELSE [ok |-> FALSE, sessions |-> <<>>]

\* the sessions a successful query (the q-th) returns for the keys it found
Discovered(q, keys) == [i \in 1..Len(keys) |-> Session(q, i, keys[i])]

\* the number of times s occurs in the map
Occurrences(mm, s) ==
    Cardinality({p \in UNION {{k} \X DOMAIN mm[k] : k \in DOMAIN mm} : mm[p[1]][p[2]] = s})

\* clear() on the map mm: Release() on every session, every key deleted
clear(mm, rel) ==
    [m |-> EmptyMap,
     releases |-> [s \in DOMAIN rel |-> rel[s] + Occurrences(mm, s)]]

\* the loop of getAndAddSessions over sessions[i..]
RECURSIVE addSessions(_, _, _, _)
addSessions(mm, unmapped, sessions, i) ==
    IF i > Len(sessions) THEN [m |-> mm, unmapped |-> unmapped, panic |-> FALSE]
    ELSE LET added == add(mm, sessions[i])
         IN  IF sessionMappedPanics(sessions[i].key, unmapped)
             THEN [m |-> added, unmapped |-> unmapped, panic |-> TRUE]
             ELSE IF ~sessionMapped(sessions[i].key, unmapped)
             THEN addSessions(added, Append(unmapped, sessions[i]), sessions, i + 1)
             ELSE addSessions(added, unmapped, sessions, i + 1)

\* getAndAddSessions() from GetAllSessions on: the query answers `found` with
\* the sessions of query q, and each is added to the map mm and, if it is not
\* mapped, to the unmapped sessions
getAndAddSessions(mm, unmapped, found, q) ==
    IF found.err THEN [m |-> mm, unmapped |-> unmapped, fetched |-> <<>>, panic |-> FALSE]
    ELSE LET sessions == Discovered(q, found.keys)
             r        == addSessions(mm, unmapped, sessions, 1)
         IN  [m |-> r.m, unmapped |-> r.unmapped, fetched |-> sessions, panic |-> r.panic]

\* the goroutines that call refreshSessions: the config-reload consumer and
\* the tray's action handler
Callers == {"reload", "tray"}

\* the force argument of the caller's call
Force(c) == c = "tray"

Idle == [pc |-> "idle"]

\* the registry as a refreshSessions call finds or leaves it
Snapshot(mm, unmapped, last, rel) ==
    [m |-> mm, unmappedSessions |-> unmapped, lastSessionRefresh |-> last,
     releases |-> rel]

\* a gate whose comparison is the wrong way round
refreshGateInverted(force) ==
    ~force /\ lastSessionRefresh + minTimeBetweenSessionRefreshes < now

\* refreshSessions' first statement: the call returns without refreshing
refreshGate(force) ==
    ~force /\ lastSessionRefresh + minTimeBetweenSessionRefreshes > now

\* the caller's refreshSessions call returns
Return(c, at, before, queried, err, fetched) ==
    /\ lastRefresh' = [caller |-> c, force |-> Force(c), at |-> at,
                       queried |-> queried, err |-> err, fetched |-> fetched,
                       before |-> before,
                       after |-> Snapshot(m', unmappedSessions', lastSessionRefresh',
                                          releases')]
    /\ falseCalls' = IF Force(c) THEN falseCalls
                     ELSE LET call == [at |-> at, queried |-> queried]
                          IN  IF falseCalls = <<>> THEN <<call>>
                              ELSE <<falseCalls[Len(falseCalls)], call>>

\* a getAndAddSessions that leaves m.lastSessionRefresh as it finds it
refreshMarkKept == lastSessionRefresh

\* getAndAddSessions, first statement: m.lastSessionRefresh = time.Now(),
\* before the query and whatever it answers
refreshMark == now

\* refreshSessions(force) is called and tests the gate
RefreshGate(c) ==
    /\ ~panicked
    /\ refreshCall[c].pc = "idle"
    /\ nQueries + Cardinality({d \in Callers : refreshCall[d].pc # "idle"}) < MaxQueries
    /\ IF refreshGate(Force(c))
       THEN /\ UNCHANGED <<m, unmappedSessions, lastSessionRefresh, releases, refreshCall>>
            /\ Return(c, now, Snapshot(m, unmappedSessions, lastSessionRefresh, releases),
                      FALSE, FALSE, <<>>)
       ELSE /\ refreshCall' = [refreshCall EXCEPT ![c] =
                                  [pc |-> "clear", at |-> now,
                                   before |-> Snapshot(m, unmappedSessions,
                                                       lastSessionRefresh, releases)]]
            /\ UNCHANGED <<m, unmappedSessions, lastSessionRefresh, releases,
                           refreshObsVars>>
    /\ UNCHANGED <<now, currentWindow, nQueries, volume, serialVars, configVars,
                   lineObsVars, sdVars, harnessVars, panicked, otherVars>>

\* refreshSessions: m.clear(), and getAndAddSessions up to its query ("mark
\* that we're refreshing before anything else")
RefreshClear(c) ==
    /\ ~panicked
    /\ refreshCall[c].pc = "clear"
    /\ LET cleared == clear(m, releases)
       IN  /\ m' = cleared.m
           /\ releases' = cleared.releases
    /\ lastSessionRefresh' = refreshMark
    /\ unmappedSessions' = <<>>
    /\ refreshCall' = [refreshCall EXCEPT ![c].pc = "query"]
    /\ UNCHANGED <<now, currentWindow, nQueries, volume, serialVars, configVars,
                   lineObsVars, refreshObsVars, sdVars, harnessVars, panicked, otherVars>>

\* getAndAddSessions: GetAllSessions answers `found`, the sessions are added,
\* and refreshSessions returns
RefreshQuery(c, found) ==
    /\ ~panicked
    /\ refreshCall[c].pc = "query"
    /\ \E got \in {getAndAddSessions(m, unmappedSessions, found, nQueries + 1)} :
           /\ m' = got.m
           /\ unmappedSessions' = got.unmapped
           /\ nQueries' = nQueries + 1
           /\ releases' = [s \in Range(got.fetched) |-> 0] @@ releases
           /\ volume' = [s \in Range(got.fetched) |-> DiscoveredVolume] @@ volume
           /\ panicked' = got.panic
           /\ UNCHANGED lastSessionRefresh
           /\ Return(c, refreshCall[c].at, refreshCall[c].before, TRUE, found.err,
                     got.fetched)
    /\ refreshCall' = [refreshCall EXCEPT ![c] = Idle]
    /\ UNCHANGED <<now, currentWindow, serialVars, configVars, lineObsVars, sdVars,
                   harnessVars, otherVars>>

\* a second passes
Tick ==
    /\ now < MaxNow
    /\ now' = now + 1
    /\ UNCHANGED <<m, unmappedSessions, lastSessionRefresh, currentWindow, nQueries,
                   refreshCall, releases, volume, serialVars, configVars, lineObsVars,
                   refreshObsVars, sdVars, harnessVars, panicked, otherVars>>

\* the keys another goroutine looks up while refreshes run
LookupKeys == {"master"}

\* a refresh that keeps m.lock from clear() until its query has answered
holdsLockAcrossQuery(call) == call.pc = "query"

\* whether a refreshSessions call that stands at call.pc holds m.lock: clear()
\* and add() take it and give it back before they return (part_005:268-303),
\* and neither the gate nor GetAllSessions is reached with it held
holdsLock(call) == FALSE

\* the refreshSessions calls that have cleared the map and wait for the query
QueryOutstanding == {c \in Callers : refreshCall[c].pc = "query"}

\* get(key), called by another goroutine (handleSliderMoveEvent, part_005:195)
\* while refreshes run: it takes m.lock, reads and returns
ConcurrentGet(key) ==
    /\ ~panicked
    /\ \A c \in Callers : ~holdsLock(refreshCall[c])
    /\ lookup' = [key |-> key, ok |-> get(key).ok, sessions |-> get(key).sessions,
                  m |-> m, under |-> QueryOutstanding, q |-> nQueries, used |-> <<>>]
    /\ UNCHANGED <<serialVars, configVars, sessionVars, lineObsVars, refreshObsVars,
                   sdVars, harnessVars, panicked, lifecycleVars, loadVars, reconnect>>

\* the values an event carries to the sessions
UseValues == {F32Ratio(50, 100)}

\* handleSliderMoveEvent's loop over the sessions its get returned
\* (part_005:202-209): GetVolume on each, and SetVolume(value) where it
\* differs.  `used` keeps, for each call made, whether Release had been
\* called on the session before
UseSessions(value) ==
    /\ ~panicked
    /\ lookup.key # ""
    /\ lookup.ok
    /\ lookup.used = <<>>
    /\ lookup' = [lookup EXCEPT !.used =
                     [i \in 1..Len(lookup.sessions) |->
                         [session |-> lookup.sessions[i],
                          released |-> releases[lookup.sessions[i]] > 0]]]
    /\ volume' = [s \in DOMAIN volume |->
                     IF s \in Range(lookup.sessions) THEN value ELSE volume[s]]
    /\ UNCHANGED <<m, unmappedSessions, lastSessionRefresh, now, currentWindow,
                   nQueries, refreshCall, releases, serialVars, configVars,
                   lineObsVars, refreshObsVars, sdVars, harnessVars, panicked,
                   lifecycleVars, loadVars, reconnect>>

-----------------------------------------------------------------------------
(***************************************************************************)
(* Target resolution: populations, config reloads, the foreground window   *)
(* and resolveTarget calls                                                 *)
(***************************************************************************)
NoCall == [arg |-> "", result |-> <<>>, mapping |-> <<>>, window |-> NoWindow]

\* what GetAllSessions can answer when targets are resolved
ResolveFinderOutcomes ==
    FinderOutcomes \cup {[err |-> FALSE, keys |-> MasterSpotifyAndSpeakers]}

\* refreshSessions(true) run from its first statement to its return (or to the
\* panic of sessionMapped), no other goroutine touching the map meanwhile
RefreshSessionsForced(found) ==
    /\ ~panicked
    /\ \A c \in Callers : refreshCall[c].pc = "idle"
    /\ nQueries < MaxQueries
    /\ LET cleared == clear(m, releases)
           got     == getAndAddSessions(cleared.m, <<>>, found, nQueries + 1)
       IN  /\ m' = got.m
           /\ unmappedSessions' = got.unmapped
           /\ releases' = [s \in Range(got.fetched) |-> 0] @@ cleared.releases
           /\ volume' = [s \in Range(got.fetched) |-> DiscoveredVolume] @@ volume
           /\ panicked' = got.panic
           /\ populated' = [mapping |-> SliderMapping, keys |-> found.keys,
                            ok |-> ~found.err /\ ~got.panic]
           /\ lastSessionRefresh' = now
           /\ nQueries' = nQueries + 1
           /\ IF got.panic THEN UNCHANGED refreshObsVars
              ELSE Return("tray", now,
                          Snapshot(m, unmappedSessions, lastSessionRefresh, releases),
                          TRUE, found.err, got.fetched)
    /\ resolveCall' = NoCall
    /\ UNCHANGED <<now, currentWindow, refreshCall, serialVars, configVars, lineObsVars,
                   sdVars, normVars, consumerVars, otherVars>>

\* a config reload has replaced cc.SliderMapping (config.go:158)
ReloadConfig(mapping) ==
    /\ ~panicked
    /\ mapping # SliderMapping
    /\ SliderMapping' = mapping
    /\ UNCHANGED <<InvertSliders, NoiseReductionLevel, serialVars, sessionVars, lineObsVars,
                   refreshObsVars, sdVars, harnessVars, panicked, otherVars>>

\* another window comes to the foreground, or the foreground query starts failing
FocusWindow(window) ==
    /\ ~panicked
    /\ window # currentWindow
    /\ currentWindow' = window
    /\ UNCHANGED <<m, unmappedSessions, lastSessionRefresh, now, nQueries, refreshCall,
                   releases, volume, serialVars, configVars, lineObsVars, refreshObsVars,
                   sdVars, harnessVars, panicked, otherVars>>

\* resolveTarget(name) is called and returns
CallResolveTarget(name) ==
    /\ ~panicked
    /\ resolveCall' = [arg |-> name, result |-> resolveTarget(name, unmappedSessions),
                       mapping |-> SliderMapping, window |-> currentWindow]
    /\ UNCHANGED <<populated, normVars, consumerVars, serialVars, configVars, sessionVars,
                   lineObsVars, refreshObsVars, sdVars, panicked, otherVars>>

-----------------------------------------------------------------------------
(***************************************************************************)
(* The slider-move consumer: processLine's send loop, the channel and      *)
(* handleSliderMoveEvent                                                   *)
(***************************************************************************)
MaxEvents == 2

MaxClock == 50

\* the events a send loop is started with: sliders 0..3 moved to 0.50
EventLists == {<<SliderMoveEvent(i, F32Ratio(50, 100))>> : i \in 0..3}
                 \cup {<<SliderMoveEvent(0, F32Ratio(50, 100)),
                          SliderMoveEvent(i, F32Ratio(50, 100))>> : i \in 1..2}

\* slider 0 is a group, slider 1 the unmapped sessions, slider 2 an
\* application that is not running; slider 3 (and up) has no entry
GroupMapping ==
    (0 :> <<"master", "chrome.exe">> @@ 1 :> <<"deej.unmapped">> @@ 2 :> <<"firefox.exe">>)

MasterTwoChromesAndSpotify == <<"master", "chrome.exe", "chrome.exe", "spotify.exe">>

ConsumerFinderOutcomes == {[err |-> TRUE, keys |-> <<>>],
                           [err |-> FALSE, keys |-> MasterTwoChromesAndSpotify]}

\* the sessions whose SetVolume fails, by their position in the query's answer
FailingSets == {{}, {1}, {2}, 1..4}

\* the seconds that pass at once: the greatest age that is not stale, and
\* the least that is
Delays == {45, 46}

Receiving == [pc |-> "receive"]

\* a send loop that goes through the events from the last to the first
sendOrderReversed(events) == [i \in 1..Len(events) |-> events[Len(events) + 1 - i]]

\* `for _, event := range events`: the order in which the events are sent
sendOrder(events) == events

\* a staleness test that takes 45 s for stale
sessionMapStaleInclusive == lastSessionRefresh + maxTimeBetweenSessionRefreshes <= now

\* m.lastSessionRefresh.Add(maxTimeBetweenSessionRefreshes).Before(time.Now())
sessionMapStale == lastSessionRefresh + maxTimeBetweenSessionRefreshes < now

\* a loop that gives the event up at the first SetVolume that fails
RECURSIVE setVolumesAborting(_, _, _, _, _)
setVolumesAborting(sessions, i, value, failing, acc) ==
    IF i > Len(sessions) \/ acc.adjustmentFailed THEN acc
    ELSE LET session == sessions[i]
             err     == session.i \in failing
         IN  IF acc.volume[session] # value
             THEN setVolumesAborting(sessions, i + 1, value, failing,
                     [volume |-> IF err THEN acc.volume
                                 ELSE [acc.volume EXCEPT ![session] = value],
                      calls |-> Append(acc.calls, [op |-> "SetVolume", session |-> session,
                                                   value |-> value, err |-> err]),
                      targetFound |-> acc.targetFound,
                      adjustmentFailed |-> acc.adjustmentFailed \/ err])
             ELSE setVolumesAborting(sessions, i + 1, value, failing, acc)

\* the loop over the sessions of one key (part_005:202-209); acc carries the
\* volumes, the calls made, targetFound and adjustmentFailed
RECURSIVE setVolumes(_, _, _, _, _)
setVolumes(sessions, i, value, failing, acc) ==
    IF i > Len(sessions) THEN acc
    ELSE LET session == sessions[i]
             err     == session.i \in failing
         IN  IF acc.volume[session] # value
             THEN setVolumes(sessions, i + 1, value, failing,
                     [volume |-> IF err THEN acc.volume
                                 ELSE [acc.volume EXCEPT ![session] = value],
                      calls |-> Append(acc.calls, [op |-> "SetVolume", session |-> session,
                                                   value |-> value, err |-> err]),
                      targetFound |-> acc.targetFound,
                      adjustmentFailed |-> acc.adjustmentFailed \/ err])
             ELSE setVolumes(sessions, i + 1, value, failing, acc)

\* the loop over the keys one target resolved to (part_005:194-210)
RECURSIVE applyResolved(_, _, _, _, _)
applyResolved(resolvedTargets, j, value, failing, acc) ==
    IF j > Len(resolvedTargets) THEN acc
    ELSE LET got    == get(resolvedTargets[j])
             looked == [acc EXCEPT !.calls = Append(@, [op |-> "get",
                                                        key |-> resolvedTargets[j],
                                                        ok |-> got.ok])]
         IN  IF ~got.ok
             THEN applyResolved(resolvedTargets, j + 1, value, failing, looked)
             ELSE applyResolved(resolvedTargets, j + 1, value, failing,
                     setVolumes(got.sessions, 1, value, failing,
                                [looked EXCEPT !.targetFound = TRUE]))

\* a loop that stops at the first target that has sessions
RECURSIVE applyTargetsFirstMatch(_, _, _, _, _)
applyTargetsFirstMatch(targets, t, value, failing, acc) ==
    IF t > Len(targets) \/ acc.targetFound THEN acc
    ELSE applyTargetsFirstMatch(targets, t + 1, value, failing,
            applyResolved(resolveTarget(targets[t], unmappedSessions), 1, value, failing,
                          acc))

\* the loop over the targets of the slider (part_005:191-211)
RECURSIVE applyTargets(_, _, _, _, _)
applyTargets(targets, t, value, failing, acc) ==
    IF t > Len(targets) THEN acc
    ELSE applyTargets(targets, t + 1, value, failing,
            applyResolved(resolveTarget(targets[t], unmappedSessions), 1, value, failing,
                          acc))

\* refreshSessions(force) run from its first statement to its return, the
\* query answering `found`: what it leaves, and whether it queried
refreshSessions(force, found) ==
    IF refreshGate(force)
    THEN [queried |-> FALSE, m |-> m, unmapped |-> unmappedSessions,
          last |-> lastSessionRefresh, releases |-> releases, volume |-> volume,
          nQueries |-> nQueries, panic |-> FALSE, err |-> FALSE, fetched |-> <<>>]
    ELSE LET cleared == clear(m, releases)
             got     == getAndAddSessions(cleared.m, <<>>, found, nQueries + 1)
         IN  [queried |-> TRUE, m |-> got.m, unmapped |-> got.unmapped, last |-> now,
              releases |-> [s \in Range(got.fetched) |-> 0] @@ cleared.releases,
              volume |-> [s \in Range(got.fetched) |-> DiscoveredVolume] @@ volume,
              nQueries |-> nQueries + 1, panic |-> got.panic, err |-> found.err,
              fetched |-> got.fetched]

\* what remains of handleSliderMoveEvent after its loops: is refreshSessions
\* called, and with which argument (part_005:213-217)
followUpOnlyWhenNotFound(targetFound, adjustmentFailed) == ~targetFound

followUpNeeded(targetFound, adjustmentFailed) == ~targetFound \/ adjustmentFailed

followUpForce(targetFound, adjustmentFailed) == targetFound /\ adjustmentFailed

\* a lookup that answers a missing slider with no targets instead of "not found"
sliderMapGetIgnoringMissing(key) ==
    IF key \in DOMAIN SliderMapping THEN [ok |-> TRUE, targets |-> SliderMapping[key]]
                                     ELSE [ok |-> TRUE, targets |-> <<>>]

\* sliderMap.get(key) on cc.SliderMapping (slider_map.go:71-77): [ok, targets]
sliderMapGet(key) ==
    IF key \in DOMAIN SliderMapping THEN [ok |-> TRUE, targets |-> SliderMapping[key]]
                                     ELSE [ok |-> FALSE, targets |-> <<>>]

\* the calls made so far for the event being handled
CurrentCalls == calls[Len(calls)]

\* the consumer's refreshSessions(force) call, made before or after the
\* loops, takes effect and is logged
ConsumerRefresh(force, found, when) ==
    LET r == refreshSessions(force, found)
    IN  /\ m' = r.m
        /\ unmappedSessions' = r.unmapped
        /\ lastSessionRefresh' = r.last
        /\ releases' = r.releases
        /\ volume' = r.volume
        /\ nQueries' = r.nQueries
        /\ panicked' = r.panic
        /\ populated' = IF r.queried
                        THEN [mapping |-> SliderMapping, keys |-> found.keys,
                              ok |-> ~r.err /\ ~r.panic]
                        ELSE populated
        /\ calls' = [calls EXCEPT ![Len(calls)] =
                        Append(@, [op |-> "refreshSessions", force |-> force,
                                   when |-> when, queried |-> r.queried, err |-> r.err,
                                   released |-> IF r.queried THEN SessionsOf(m) ELSE {}])]

\* a channel with room for an event: the send returns whatever the consumer does
receiverReadyOrBuffered(c) == TRUE

\* make(chan SliderMoveEvent) (serial.go:117) has no buffer: `ch <- event`
\* returns when the consumer c is at `event := <-sliderEventsChannel`
receiverReady(c) == c.pc = "receive"

\* processLine reaches its send loop (serial.go:211) with these events
StartSendLoop(events) ==
    /\ ~panicked
    /\ pending = <<>>
    /\ Len(emitted) + Len(events) <= MaxEvents
    /\ pending' = sendOrder(events)
    /\ emitted' = emitted \o events
    /\ UNCHANGED <<consumer, handled, completed, calls, normVars, resolveVars, serialVars,
                   configVars, sessionVars, lineObsVars, refreshObsVars, sdVars, panicked,
                   otherVars>>

\* `ch <- event` (serial.go:213) meets `event := <-sliderEventsChannel`
\* (part_005:123): the channel has no buffer, the event passes when the
\* consumer is back at its receive
SendEvent ==
    /\ ~panicked
    /\ pending # <<>>
    /\ receiverReady(consumer)
    /\ consumer' = [pc |-> "stale", event |-> Head(pending)]
    /\ pending' = Tail(pending)
    /\ handled' = Append(handled, Head(pending))
    /\ calls' = Append(calls, <<>>)
    /\ UNCHANGED <<emitted, completed, normVars, resolveVars, serialVars, configVars,
                   sessionVars, lineObsVars, refreshObsVars, sdVars, panicked, otherVars>>

\* handleSliderMoveEvent, part_005:178-181: a stale map is refreshed first
HandleStale(found) ==
    /\ ~panicked
    /\ consumer.pc = "stale"
    /\ IF sessionMapStale
       THEN /\ nQueries < MaxQueries
            /\ ConsumerRefresh(TRUE, found, "before")
       ELSE UNCHANGED <<m, unmappedSessions, lastSessionRefresh, releases, volume,
                        nQueries, panicked, populated, calls>>
    /\ consumer' = [consumer EXCEPT !.pc = "apply"]
    /\ UNCHANGED <<pending, emitted, handled, completed, now, currentWindow, refreshCall,
                   resolveCall, normVars, serialVars, configVars, lineObsVars,
                   refreshObsVars, sdVars, otherVars>>

\* handleSliderMoveEvent, part_005:183-211: the targets of the slider are
\* resolved and the volume of their sessions is set
HandleApply(failing) ==
    /\ ~panicked
    /\ consumer.pc = "apply"
    /\ IF ~sliderMapGet(consumer.event.SliderID).ok
       THEN /\ consumer' = Receiving
            /\ completed' = completed + 1
            /\ UNCHANGED <<volume, calls>>
       ELSE LET acc == applyTargets(sliderMapGet(consumer.event.SliderID).targets, 1,
                                    consumer.event.PercentValue, failing,
                                    [volume |-> volume, calls |-> CurrentCalls,
                                     targetFound |-> FALSE, adjustmentFailed |-> FALSE])
            IN  /\ volume' = acc.volume
                /\ calls' = [calls EXCEPT ![Len(calls)] = acc.calls]
                /\ IF followUpNeeded(acc.targetFound, acc.adjustmentFailed)
                   THEN /\ consumer' = [pc |-> "followup", event |-> consumer.event,
                                        targetFound |-> acc.targetFound,
                                        adjustmentFailed |-> acc.adjustmentFailed]
                        /\ UNCHANGED completed
                   ELSE /\ consumer' = Receiving
                        /\ completed' = completed + 1
    /\ UNCHANGED <<pending, emitted, handled, m, unmappedSessions, lastSessionRefresh, now,
                   currentWindow, nQueries, refreshCall, releases, normVars, resolveVars,
                   serialVars, configVars, lineObsVars, refreshObsVars, sdVars, panicked,
                   otherVars>>

\* handleSliderMoveEvent, part_005:213-217: the refresh after the event
HandleFollowUp(found) ==
    /\ ~panicked
    /\ consumer.pc = "followup"
    /\ nQueries < MaxQueries
    /\ ConsumerRefresh(followUpForce(consumer.targetFound, consumer.adjustmentFailed),
                       found, "after")
    /\ consumer' = Receiving
    /\ completed' = completed + 1
    /\ UNCHANGED <<pending, emitted, handled, now, currentWindow, refreshCall, resolveCall,
                   normVars, serialVars, configVars, lineObsVars, refreshObsVars, sdVars,
                   otherVars>>

\* time passes
Elapse(d) ==
    /\ now + d <= MaxClock
    /\ now' = now + d
    /\ UNCHANGED <<m, unmappedSessions, lastSessionRefresh, currentWindow, nQueries,
                   refreshCall, releases, volume, serialVars, configVars, lineObsVars,
                   refreshObsVars, sdVars, harnessVars, panicked, otherVars>>

-----------------------------------------------------------------------------
(***************************************************************************)
(* config.go and slider_map.go: Load, sliderMapFromConfigs and the readers *)
(* of cc.SliderMapping                                                     *)
(***************************************************************************)
MaxLoads == 2

\* what config.yaml and preferences.yaml hold when Load reads them: whether
\* config.yaml exists, and the slider_mapping of each (viper's default for a
\* file without the key is the empty map, config.go:87).  "0" and "00" are
\* two keys that strconv.Atoi parses to the same index; "x" does not parse
ConfigFiles ==
    {[file |-> TRUE, user |-> ("0" :> <<"a", "">>), internal |-> ("0" :> <<"b">>)],
     [file |-> TRUE, user |-> ("0" :> <<"a", "">>), internal |-> ("0" :> <<"a", "b">>)],
     [file |-> TRUE, user |-> ("1" :> <<"b">> @@ "x" :> <<"a">>),
                     internal |-> ("1" :> <<"", "b", "c">> @@ "x" :> <<"b">>)],
     [file |-> TRUE, user |-> ("0" :> <<"a">> @@ "00" :> <<"b">>), internal |-> EmptyMap],
     [file |-> TRUE, user |-> EmptyMap, internal |-> ("0" :> <<"a">> @@ "00" :> <<"b">>)],
     [file |-> TRUE, user |-> EmptyMap, internal |-> EmptyMap],
     [file |-> FALSE, user |-> EmptyMap, internal |-> EmptyMap]}

\* the orders in which a range statement can visit the keys of mapping
RECURSIVE KeyOrders(_)
KeyOrders(keys) ==
    IF keys = {} THEN {<<>>}
    ELSE UNION {{<<k>> \o rest : rest \in KeyOrders(keys \ {k})} : k \in keys}

\* funk.FilterString(targets, func(s) bool { return s != "" && !funk.ContainsString(existing, s) })
RECURSIVE FilterTargets(_, _)
FilterTargets(targets, existing) ==
    IF targets = <<>> THEN <<>>
    ELSE LET rest == FilterTargets(Tail(targets), existing)
         IN  IF Head(targets) # "" /\ Head(targets) \notin Range(existing)
             THEN <<Head(targets)>> \o rest
             ELSE rest

\* sliderMap.set(key, value) on the map mm
sliderMapSet(mm, key, value) == (key :> value) @@ mm

\* one pass of the first loop of sliderMapFromConfigs
copyUserTargets(resultMap, userMapping, sliderIdxString) ==
    LET sliderIdx == Atoi(sliderIdxString)
    IN  IF sliderIdx.err THEN resultMap
        ELSE sliderMapSet(resultMap, sliderIdx.val,
                          FilterTargets(userMapping[sliderIdxString], <<>>))

\* a second loop that appends every non-empty internal target
addInternalTargetsUnfiltered(resultMap, internalMapping, sliderIdxString) ==
    LET sliderIdx == Atoi(sliderIdxString)
        existingTargets == IF sliderIdx.val \in DOMAIN resultMap
                           THEN resultMap[sliderIdx.val] ELSE <<>>
    IN  IF sliderIdx.err THEN resultMap
        ELSE sliderMapSet(resultMap, sliderIdx.val,
                          existingTargets
                              \o FilterTargets(internalMapping[sliderIdxString], <<>>))

\* one pass of the second loop of sliderMapFromConfigs
addInternalTargets(resultMap, internalMapping, sliderIdxString) ==
    LET sliderIdx == Atoi(sliderIdxString)
        existingTargets == IF sliderIdx.val \in DOMAIN resultMap
                           THEN resultMap[sliderIdx.val] ELSE <<>>
    IN  IF sliderIdx.err THEN resultMap
        ELSE sliderMapSet(resultMap, sliderIdx.val,
                          existingTargets
                              \o FilterTargets(internalMapping[sliderIdxString],
                                               existingTargets))

RECURSIVE copyAllUserTargets(_, _, _, _)
copyAllUserTargets(resultMap, userMapping, userOrder, i) ==
    IF i > Len(userOrder) THEN resultMap
    ELSE copyAllUserTargets(copyUserTargets(resultMap, userMapping, userOrder[i]),
                            userMapping, userOrder, i + 1)

RECURSIVE addAllInternalTargets(_, _, _, _)
addAllInternalTargets(resultMap, internalMapping, internalOrder, i) ==
    IF i > Len(internalOrder) THEN resultMap
    ELSE addAllInternalTargets(addInternalTargets(resultMap, internalMapping,
                                                  internalOrder[i]),
                               internalMapping, internalOrder, i + 1)

\* sliderMapFromConfigs(userMapping, internalMapping), its two range
\* statements visiting the keys in userOrder and internalOrder
sliderMapFromConfigs(userMapping, internalMapping, userOrder, internalOrder) ==
    addAllInternalTargets(copyAllUserTargets(EmptyMap, userMapping, userOrder, 1),
                          internalMapping, internalOrder, 1)

\* where sliderMapFromConfigs stands once it has made i - 1 passes of a loop
LoadPhase(phase, i, userOrder, internalOrder) ==
    IF phase = "user" /\ i <= Len(userOrder) THEN "user"
    ELSE IF phase = "user" /\ internalOrder # <<>> THEN "internal"
    ELSE IF phase = "internal" /\ i <= Len(internalOrder) THEN "internal"
    ELSE "publish"

\* a reader that reaches the map sliderMapFromConfigs is still filling
readSliderMappingInPlace ==
    IF loading.pc \in {"user", "internal", "publish"} THEN loading.resultMap
    ELSE SliderMapping

\* the map a reader reaches through cc.SliderMapping: the one assigned last
\* (config.go:158); resultMap is local to sliderMapFromConfigs until then
readSliderMapping == SliderMapping

\* Load is called (at start-up, or again for a changed file): it reads the
\* two files, and returns an error if config.yaml does not exist
LoadStart(files, userOrder, internalOrder) ==
    /\ loading.pc = "idle"
    /\ loading.loads < MaxLoads
    /\ IF ~files.file
       THEN /\ loading' = [loading EXCEPT !.loads = @ + 1, !.err = TRUE]
            /\ userConfig' = [userConfig EXCEPT !.file = FALSE]
            /\ UNCHANGED internalConfig
       ELSE /\ userConfig' = [file |-> TRUE, slider_mapping |-> files.user]
            /\ internalConfig' = files.internal
            /\ loading' = [pc |-> LoadPhase("user", 1, userOrder, internalOrder),
                           loads |-> loading.loads + 1, err |-> FALSE,
                           populated |-> loading.populated,
                           userOrder |-> userOrder, internalOrder |-> internalOrder,
                           i |-> 1,
                           resultMap |-> EmptyMap]
    /\ UNCHANGED <<serialVars, configVars, sessionVars, lineObsVars, refreshObsVars,
                   sdVars, harnessVars, panicked, lifecycleVars, sliderGot, lookup, reconnect>>

\* sliderMapFromConfigs: one pass of the loop over the user mapping
LoadUserKey ==
    /\ loading.pc = "user"
    /\ loading' =
          [loading EXCEPT
              !.resultMap = copyUserTargets(@, userConfig.slider_mapping,
                                            loading.userOrder[loading.i]),
              !.pc = LoadPhase("user", loading.i + 1, loading.userOrder,
                               loading.internalOrder),
              !.i = IF loading.i + 1 <= Len(loading.userOrder) THEN loading.i + 1 ELSE 1]
    /\ UNCHANGED <<serialVars, configVars, sessionVars, lineObsVars, refreshObsVars,
                   sdVars, harnessVars, panicked, lifecycleVars, userConfig,
                   internalConfig, sliderGot, lookup, reconnect>>

\* sliderMapFromConfigs: one pass of the loop over the internal mapping
LoadInternalKey ==
    /\ loading.pc = "internal"
    /\ loading' =
          [loading EXCEPT
              !.resultMap = addInternalTargets(@, internalConfig,
                                               loading.internalOrder[loading.i]),
              !.pc = LoadPhase("internal", loading.i + 1, loading.userOrder,
                               loading.internalOrder),
              !.i = loading.i + 1]
    /\ UNCHANGED <<serialVars, configVars, sessionVars, lineObsVars, refreshObsVars,
                   sdVars, harnessVars, panicked, lifecycleVars, userConfig,
                   internalConfig, sliderGot, lookup, reconnect>>

\* populateFromVipers assigns the map sliderMapFromConfigs returned
LoadPublish ==
    /\ loading.pc = "publish"
    /\ SliderMapping' = loading.resultMap
    /\ loading' = [loading EXCEPT !.pc = "idle", !.populated = TRUE]
    /\ UNCHANGED <<InvertSliders, NoiseReductionLevel, serialVars, sessionVars,
                   lineObsVars, refreshObsVars, sdVars, harnessVars, panicked,
                   lifecycleVars, userConfig, internalConfig, sliderGot, lookup, reconnect>>

\* a consumer calls cc.SliderMapping.get(key) and would see `seen` on iterate;
\* consumers run once the first Load has succeeded (deej.go:87-100)
CallSliderMapGet(key) ==
    /\ loading.populated
    /\ LET seen   == readSliderMapping
           during == loading.pc # "idle"
       IN  sliderGot' =
              [key |-> key,
               ok |-> key \in DOMAIN seen,
               targets |-> IF key \in DOMAIN seen THEN seen[key] ELSE <<>>,
               seen |-> seen,
               during |-> during,
               old |-> SliderMapping,
               building |-> IF during THEN loading.resultMap ELSE SliderMapping,
               new |-> IF during
                       THEN sliderMapFromConfigs(userConfig.slider_mapping, internalConfig,
                                                 loading.userOrder, loading.internalOrder)
                       ELSE SliderMapping]
    /\ UNCHANGED <<serialVars, configVars, sessionVars, lineObsVars, refreshObsVars,
                   sdVars, harnessVars, panicked, lifecycleVars, userConfig,
                   internalConfig, loading, lookup, reconnect>>

-----------------------------------------------------------------------------
(***************************************************************************)
(* util.SignificantlyDifferent called on its own                           *)
(***************************************************************************)
\* old and new values in thousandths: -1, 0, 1 and values around 0.5 and the edges
SdThousandths == {-1000, 0, 20, 465, 475, 476, 485, 500, 515, 524, 525, 526, 535,
                  980, 990, 1000}

F32Thousandths(t) == IF t < 0 THEN -F32Ratio(-t, 1000) ELSE F32Ratio(t, 1000)

\* the call is made, and returns
CallSignificantlyDifferent ==
    /\ sdResult = <<>>
    /\ sdResult' = <<SignificantlyDifferent(F32Thousandths(sdArgs[1]),
                                            F32Thousandths(sdArgs[2]), sdArgs[3])>>
    /\ UNCHANGED <<sdArgs, serialVars, configVars, sessionVars, lineObsVars, refreshObsVars,
                   harnessVars, panicked, otherVars>>

-----------------------------------------------------------------------------
(***************************************************************************)
(* processLine's normalization of one field (serial.go:194-200) on its own *)
(***************************************************************************)
\* the integers strconv.Atoi yields for the fields processLine goes on with
RawValues == 0..1023

\* scaledValue := util.NormalizeScalar(float32(rawValue) / 1023.0)
CallNormalizeScalar ==
    /\ normResult = <<>>
    /\ normResult' = <<NormalizeScalar(F32Ratio(normArg, 1023))>>
    /\ UNCHANGED <<normArg, resolveVars, consumerVars, serialVars, configVars, sessionVars,
                   lineObsVars, refreshObsVars, sdVars, panicked, otherVars>>

\* ---- Start, Stop and the reconnect on a config reload (serial.go:66-151,
\* deej.go:129-137). `reconnect` holds: where run's `go d.serial.Start()` and
\* the reload goroutine stand, the port each Start is opening, the configured
\* port, sio.connOptions.PortName, the ports held open, the number of live
\* readLoop goroutines, the delayed reset a reload has scheduled and, as
\* history, the line that had been read last when the reset was made.
\* config reloads handled by the reload goroutine
MaxReloads == 2
Ports == {"COM3", "COM4"}
StartCallers == {"run", "reload"}

\* the running program: Start has returned, one readLoop holds the connection
Established ==
    [run |-> "returned", reload |-> "idle", opening |-> [c \in StartCallers |-> ""],
     configPort |-> "COM3", connOptions |-> "COM3", open |-> {"open"}, loops |-> 1,
     reset |-> "none", resetAfter |-> <<>>, reloads |-> 0]

\* NewSerialIO has returned (serial.go:47-62) and run is about to spawn
\* `go d.serial.Start()` (deej.go:134-138): nothing is open, no loop runs
NotStarted ==
    [run |-> "start", reload |-> "idle", opening |-> [c \in StartCallers |-> ""],
     configPort |-> "COM3", connOptions |-> "", open |-> {}, loops |-> 0,
     reset |-> "none", resetAfter |-> <<>>, reloads |-> 0]

\* run's Start has not returned an error: handleSerialError ends in signalStop
\* (deej.go:151-165), after which the program shuts down
Alive == reconnect.run # "stopped"

\* where a caller stands once its Start has returned err (nil or not)
StartReturned(c, err) ==
    IF c = "reload" THEN "idle" ELSE IF err THEN "stopped" ELSE "returned"

\* everything but the connection and `reconnect`
ReconnectFrame ==
    UNCHANGED <<lastKnownNumSliders, currentSliderPercentValues, configVars, sessionVars,
                lineObsVars, refreshObsVars, sdVars, harnessVars, panicked,
                portOpen, readLoop, runPc, loadVars, lookup>>

\* Start up to its call of serial.Open (serial.go:66-89): with sio.connected
\* set it returns "connection already active"; otherwise connOptions takes the
\* configured port and serial.Open is called with it
StartTest(c) ==
    /\ Alive
    /\ reconnect[c] = "start"
    /\ reconnect' = IF connected
                    THEN [reconnect EXCEPT ![c] = StartReturned(c, TRUE)]
                    ELSE [reconnect EXCEPT ![c] = "opening",
                                           !.connOptions = reconnect.configPort,
                                           !.opening[c] = reconnect.configPort]
    /\ UNCHANGED <<connected, conn>>
    /\ ReconnectFrame

\* serial.Open returns a connection (serial.go:89, 95-102): a port is opened
\* by one holder at a time; sio.conn, sio.connected, `go sio.readLoop()`
StartOpen(c) ==
    /\ Alive
    /\ reconnect[c] = "opening"
    /\ reconnect.opening[c] \notin reconnect.open
    /\ conn' = reconnect.opening[c]
    /\ connected' = TRUE
    /\ reconnect' = [reconnect EXCEPT ![c] = StartReturned(c, FALSE),
                                      !.opening[c] = "",
                                      !.open = @ \cup {reconnect.opening[c]},
                                      !.loops = @ + 1]
    /\ ReconnectFrame

\* serial.Open returns an error (serial.go:89-93): Start returns it
StartOpenFails(c) ==
    /\ Alive
    /\ reconnect[c] = "opening"
    /\ reconnect' = [reconnect EXCEPT ![c] = StartReturned(c, TRUE), !.opening[c] = ""]
    /\ UNCHANGED <<connected, conn>>
    /\ ReconnectFrame

\* the configuration was reloaded with `port` as its COM port, and the reload
\* goroutine receives the notification (serial.go:127-136): it spawns the
\* delayed reset and tests needsReconnect (serial.go:232-235)
ConfigReload(port) ==
    /\ Alive
    /\ reconnect.reload = "idle"
    /\ reconnect.reloads < MaxReloads
    /\ reconnect' = [reconnect EXCEPT !.configPort = port,
                                      !.reloads = @ + 1,
                                      !.reset = "pending",
                                      !.reload = IF port # reconnect.connOptions
                                                 THEN "stop" ELSE "idle"]
    /\ UNCHANGED <<connected, conn>>
    /\ ReconnectFrame

\* the spawned goroutine after its 50 ms (serial.go:131-134)
ReloadReset ==
    /\ Alive
    /\ reconnect.reset = "pending"
    /\ lastKnownNumSliders' = 0
    /\ reconnect' = [reconnect EXCEPT !.reset = "done",
                                      !.resetAfter = <<lastLine, lastRepeat>>]
    /\ UNCHANGED <<connected, conn, currentSliderPercentValues, configVars, sessionVars,
                   lineObsVars, refreshObsVars, sdVars, harnessVars, panicked,
                   portOpen, readLoop, runPc, loadVars, lookup>>

\* the reconnect's sio.Stop() (serial.go:138, 106-113): with a connection it
\* goes to `sio.stopChannel <- true`, without one it returns
ReloadStop ==
    /\ Alive
    /\ reconnect.reload = "stop"
    /\ reconnect' = [reconnect EXCEPT !.reload = IF connected THEN "sending" ELSE "sleeping"]
    /\ UNCHANGED <<connected, conn>>
    /\ ReconnectFrame

\* a readLoop at its select takes the stop case (serial.go:158-161):
\* closeConnection, the loop returns; Stop returns and the reconnect sleeps
LoopStop ==
    /\ Alive
    /\ reconnect.reload = "sending"
    /\ reconnect.loops > 0
    /\ conn' = closeConnection.conn
    /\ connected' = closeConnection.connected
    /\ reconnect' = [reconnect EXCEPT !.reload = "sleeping",
                                      !.loops = @ - 1,
                                      !.open = @ \ {conn}]
    /\ ReconnectFrame

\* the reconnect's 50 ms are over (serial.go:140): it calls Start
ReloadWake ==
    /\ Alive
    /\ reconnect.reload = "sleeping"
    /\ reconnect' = [reconnect EXCEPT !.reload = "start"]
    /\ UNCHANGED <<connected, conn>>
    /\ ReconnectFrame

\* a readLoop's ReadString returns an error (serial.go:164-168):
\* closeConnection, the loop returns
LoopReadError ==
    /\ Alive
    /\ reconnect.loops > 0
    /\ conn' = closeConnection.conn
    /\ connected' = closeConnection.connected
    /\ reconnect' = [reconnect EXCEPT !.loops = @ - 1, !.open = @ \ {conn}]
    /\ ReconnectFrame

-----------------------------------------------------------------------------
(***************************************************************************)
(* Specifications                                                          *)
(***************************************************************************)
\* After Initialize (deej.go:84-107): the configuration is loaded, the session
\* map holds the sessions of its first query and no line has been read;
\* `serialUp` says whether Start has opened the connection since
InitializeWith(serialUp, mappings, inverts, levels, windows, lists) ==
    /\ connected = serialUp
    /\ lastKnownNumSliders = 0
    /\ currentSliderPercentValues = <<>>
    /\ SliderMapping \in mappings
    /\ InvertSliders \in inverts
    /\ NoiseReductionLevel \in levels
    /\ now = 0
    /\ lastSessionRefresh = 0
    /\ nQueries = 1
    /\ currentWindow \in windows
    /\ refreshCall = [c \in Callers |-> Idle]
    /\ \E keys \in lists :
         LET got == getAndAddSessions(EmptyMap, <<>>, [err |-> FALSE, keys |-> keys], 1)
         IN  /\ m = got.m
             /\ unmappedSessions = got.unmapped
             /\ releases = [s \in Range(got.fetched) |-> 0]
             /\ volume = [s \in Range(got.fetched) |-> DiscoveredVolume]
             /\ panicked = got.panic
             /\ populated = [mapping |-> SliderMapping, keys |-> keys, ok |-> ~got.panic]
             /\ lastRefresh = [caller |-> "initialize", force |-> TRUE, at |-> 0,
                               queried |-> TRUE, err |-> FALSE, fetched |-> got.fetched,
                               before |-> Snapshot(EmptyMap, <<>>, 0, <<>>),
                               after |-> Snapshot(got.m, got.unmapped, 0,
                                                  [s \in Range(got.fetched) |-> 0])]
    /\ falseCalls = <<>>
    /\ lastLine = ""
    /\ lastRepeat = 0
    /\ lastAccepted = ""
    /\ prevNumSliders = 0
    /\ prevValues = <<>>
    /\ lastCollected = <<>>
    /\ lastEvents = <<>>
    /\ lastDelivered = <<>>

\* After Initialize and Start: the serial connection is open as well
Initialize(mappings, inverts, levels, windows, lists) ==
    InitializeWith(TRUE, mappings, inverts, levels, windows, lists)

\* Start has opened the port and started readLoop; no stop has been asked for
ConnectionOpen ==
    /\ reconnect = Established
    /\ conn = "open"
    /\ portOpen = TRUE
    /\ readLoop = "select"
    /\ runPc = "waiting"

\* NewConfig has returned: no Load has been called, cc.SliderMapping is nil
NotLoading ==
    [pc |-> "idle", loads |-> 0, err |-> FALSE, populated |-> FALSE,
     userOrder |-> <<>>, internalOrder |-> <<>>, i |-> 1, resultMap |-> EmptyMap]

\* Initialize's Load has returned without error
Loaded == [NotLoading EXCEPT !.loads = 1, !.populated = TRUE]

NoGet == [key |-> -1]

\* no Load is under way and no consumer has looked a slider up
LoadIdle ==
    /\ userConfig = [file |-> TRUE, slider_mapping |-> EmptyMap]
    /\ internalConfig = EmptyMap
    /\ loading = Loaded
    /\ sliderGot = NoGet

NoLookup == [key |-> ""]

\* no operation is being called on its own
NoNormalizeCall == normArg = 0 /\ normResult = <<>>

NoResolveCall == resolveCall = NoCall

\* the consumer waits on its channel and nothing has been sent
ConsumerWaiting ==
    /\ pending = <<>>
    /\ consumer = Receiving
    /\ emitted = <<>>
    /\ handled = <<>>
    /\ completed = 0
    /\ calls = <<>>

InitHarness ==
    /\ NoNormalizeCall
    /\ NoResolveCall
    /\ ConsumerWaiting
    /\ ConnectionOpen
    /\ LoadIdle
    /\ lookup = NoLookup

\* the running program: the mapping {0: [master], 1: [chrome.exe]}, a master
\* session and two chrome.exe sessions, any inversion and noise level
Init ==
    /\ Initialize({MasterAndChrome}, BOOLEAN, NoiseLevels, {NoWindow}, {MasterAndTwoChromes})
    /\ sdArgs = <<0, 0, "">>
    /\ sdResult = <<>>
    /\ InitHarness

\* the decode loop of the running program
Next ==
    \/ \E wire \in WireLines : ReadLine(wire)
    \/ ReadError

Spec == Init /\ [][Next]_vars

\* the shutdown: the decode loop reads whatever arrives; the program's own
\* steps are taken when they can be, the port delivers a line, or fails, or
\* stays silent, and the interrupt comes or does not
InitShutdown ==
    /\ Initialize({MasterAndChrome}, {FALSE}, {"default"}, {NoWindow}, {MasterAndTwoChromes})
    /\ sdArgs = <<0, 0, "">>
    /\ sdResult = <<>>
    /\ InitHarness

NextShutdown ==
    \/ Interrupt
    \/ StopSerial
    \/ ReadLoopStop
    \/ ReadLoopDefault
    \/ \E wire \in WireLines : ReadLoopLine(wire)
    \/ ReadLoopError
    \/ Exit

SpecShutdown ==
    /\ InitShutdown
    /\ [][NextShutdown]_vars
    /\ WF_vars(StopSerial)
    /\ WF_vars(ReadLoopStop)
    /\ WF_vars(ReadLoopDefault)
    /\ WF_vars(Exit)

\* the configuration: NewConfig has returned and Load has not been called yet
\* (no session has been discovered, no line read); Load is then called at
\* start-up and again for a changed file, while the consumers look sliders up
InitLoad ==
    /\ Initialize({EmptyMap}, {FALSE}, {"default"}, {NoWindow}, {<<>>})
    /\ sdArgs = <<0, 0, "">>
    /\ sdResult = <<>>
    /\ NoNormalizeCall
    /\ NoResolveCall
    /\ ConsumerWaiting
    /\ ConnectionOpen
    /\ userConfig = [file |-> TRUE, slider_mapping |-> EmptyMap]
    /\ internalConfig = EmptyMap
    /\ loading = NotLoading
    /\ sliderGot = NoGet
    /\ lookup = NoLookup

NextLoad ==
    \/ \E files \in ConfigFiles :
          \E userOrder \in KeyOrders(DOMAIN files.user),
             internalOrder \in KeyOrders(DOMAIN files.internal) :
             LoadStart(files, userOrder, internalOrder)
    \/ LoadUserKey
    \/ LoadInternalKey
    \/ LoadPublish
    \/ \E key \in 0..1 : CallSliderMapGet(key)

SpecLoad == InitLoad /\ [][NextLoad]_vars

\* processLine as a unit
NextProcessLine == \E line \in AnyLines : CallProcessLine(line)

SpecProcessLine == Init /\ [][NextProcessLine]_vars

\* the session map: the first query has found a mapped session, an unmapped
\* one and a device
InitSessions ==
    /\ Initialize({MasterAndChrome}, {FALSE}, {"default"}, {NoWindow}, {MasterSpotifyAndSpeakers})
    /\ sdArgs = <<0, 0, "">>
    /\ sdResult = <<>>
    /\ InitHarness

\* the session map: refreshes and the passing of time
NextSessions ==
    \/ \E c \in Callers : RefreshGate(c)
    \/ \E c \in Callers : RefreshClear(c)
    \/ \E c \in Callers, found \in FinderOutcomes : RefreshQuery(c, found)
    \/ Tick

SpecSessions == InitSessions /\ [][NextSessions]_vars

\* a second passes, up to the moment the gate lets the first refreshSessions(false)
\* through
TickToGate == now < minTimeBetweenSessionRefreshes /\ Tick

\* the session map with a goroutine that looks keys up while refreshes run,
\* over the first seconds after start-up
NextLookup ==
    \/ \E c \in Callers : RefreshGate(c)
    \/ \E c \in Callers : RefreshClear(c)
    \/ \E c \in Callers, found \in FinderOutcomes : RefreshQuery(c, found)
    \/ TickToGate
    \/ \E key \in LookupKeys : ConcurrentGet(key)

SpecLookup == InitSessions /\ [][NextLookup]_vars

\* the slider-move consumer's get and its calls on the sessions it got, with
\* the config-reload consumer and the tray refreshing meanwhile
NextUse ==
    \/ \E c \in Callers : RefreshGate(c)
    \/ \E c \in Callers : RefreshClear(c)
    \/ \E c \in Callers, found \in FinderOutcomes : RefreshQuery(c, found)
    \/ TickToGate
    \/ \E key \in LookupKeys : ConcurrentGet(key)
    \/ \E value \in UseValues : UseSessions(value)

SpecUse == InitSessions /\ [][NextUse]_vars

\* start-up and reconnects: Initialize has returned, run spawns Start while
\* the configuration file is watched (deej.go:129-138); the file changes its
\* COM port or not, an open succeeds or fails, a read fails or does not
InitReconnect ==
    /\ InitializeWith(FALSE, {MasterAndChrome}, {FALSE}, {"default"}, {NoWindow},
                      {MasterAndTwoChromes})
    /\ sdArgs = <<0, 0, "">>
    /\ sdResult = <<>>
    /\ NoNormalizeCall
    /\ NoResolveCall
    /\ ConsumerWaiting
    /\ LoadIdle
    /\ lookup = NoLookup
    /\ conn = "nil"
    /\ portOpen = FALSE
    /\ readLoop = "done"
    /\ runPc = "waiting"
    /\ reconnect = NotStarted

NextReconnect ==
    \/ \E c \in StartCallers : StartTest(c)
    \/ \E c \in StartCallers : StartOpen(c)
    \/ \E c \in StartCallers : StartOpenFails(c)
    \/ \E port \in Ports : ConfigReload(port)
    \/ ReloadReset
    \/ ReloadStop
    \/ LoopStop
    \/ ReloadWake
    \/ LoopReadError

SpecReconnect == InitReconnect /\ [][NextReconnect]_vars

\* the decode loop of the running program (no inversion, default noise level)
\* while the configuration is reloaded with its connection settings unchanged
\* (needsReconnect is false)
NextReload ==
    \/ \E wire \in WireLines : ReadLine(wire)
    \/ ReadError
    \/ ConfigReload(reconnect.connOptions)
    \/ ReloadReset

SpecReload == InitShutdown /\ [][NextReload]_vars

\* SignificantlyDifferent as a unit: the arguments of the call are drawn
InitSignificance ==
    /\ Initialize({MasterAndChrome}, {FALSE}, {"default"}, {NoWindow}, {MasterAndTwoChromes})
    /\ sdArgs \in SdThousandths \X SdThousandths \X NoiseLevels
    /\ sdResult = <<>>
    /\ InitHarness

NextSignificance == CallSignificantlyDifferent

SpecSignificance == InitSignificance /\ [][NextSignificance]_vars

\* the normalization as a unit: the raw value is drawn
InitNormalize ==
    /\ Initialize({MasterAndChrome}, {FALSE}, {"default"}, {NoWindow}, {MasterAndTwoChromes})
    /\ sdArgs = <<0, 0, "">>
    /\ sdResult = <<>>
    /\ normArg \in RawValues
    /\ normResult = <<>>
    /\ NoResolveCall
    /\ ConsumerWaiting
    /\ ConnectionOpen
    /\ LoadIdle
    /\ lookup = NoLookup

NextNormalize == CallNormalizeScalar

SpecNormalize == InitNormalize /\ [][NextNormalize]_vars

\* target resolution: any of the mappings and foreground answers at the start
InitResolve ==
    /\ Initialize(TargetMappings, {FALSE}, {"default"}, WindowOutcomes,
                  {MasterSpotifyAndSpeakers})
    /\ sdArgs = <<0, 0, "">>
    /\ sdResult = <<>>
    /\ InitHarness

NextResolve ==
    \/ \E found \in ResolveFinderOutcomes : RefreshSessionsForced(found)
    \/ \E mapping \in TargetMappings : ReloadConfig(mapping)
    \/ \E window \in WindowOutcomes : FocusWindow(window)
    \/ \E name \in ResolveNames : CallResolveTarget(name)

SpecResolve == InitResolve /\ [][NextResolve]_vars

\* the slider-move consumer: the mapping has a group, deej.unmapped and an
\* application that is not running; the first query has found master, two
\* chrome.exe sessions and spotify.exe
InitSliderMove ==
    /\ Initialize({GroupMapping}, {FALSE}, {"default"}, {NoWindow},
                  {MasterTwoChromesAndSpotify})
    /\ sdArgs = <<0, 0, "">>
    /\ sdResult = <<>>
    /\ InitHarness

NextSliderMove ==
    \/ \E events \in EventLists : StartSendLoop(events)
    \/ SendEvent
    \/ \E found \in ConsumerFinderOutcomes : HandleStale(found)
    \/ \E failing \in FailingSets : HandleApply(failing)
    \/ \E found \in ConsumerFinderOutcomes : HandleFollowUp(found)
    \/ \E d \in Delays : Elapse(d)

SpecSliderMove == InitSliderMove /\ [][NextSliderMove]_vars

(***************************************************************************)
(* Properties                                                              *)
(***************************************************************************)
Half == F32Ratio(50, 100)

\* the sessions of a query grouped by key, in the order the query returned them
GroupedByKey(sessions) ==
    [k \in {sessions[i].key : i \in DOMAIN sessions} |->
        SelectSeq(sessions, LAMBDA s : s.key = k)]

\* the decode loop has read "512|1023" CR LF into a decoder that had accepted
\* nothing, under the mapping {0: [master], 1: [chrome.exe]}, noise default,
\* no inversion, with master and chrome.exe sessions in the registry
C1_LineRead ==
    /\ lastLine = "512|1023\r\n"
    /\ lastRepeat = 1
    /\ prevNumSliders = 0
    /\ prevValues = <<>>
    /\ SliderMapping = MasterAndChrome
    /\ NoiseReductionLevel = "default"
    /\ ~InvertSliders
    /\ masterSessionName \in DOMAIN m
    /\ "chrome.exe" \in DOMAIN m

\* C1: end to end, reading "512|1023" CR LF emits exactly the events (0, 0.50)
\* and (1, 1.00) in that order, the master session is set to 0.50 and every
\* chrome.exe session to 1.00.
C1_EndToEnd ==
    C1_LineRead =>
        /\ lastEvents = <<SliderMoveEvent(0, Half), SliderMoveEvent(1, One)>>
        /\ \A i \in DOMAIN m[masterSessionName] : volume[m[masterSessionName][i]] = Half
        /\ \A i \in DOMAIN m["chrome.exe"] : volume[m["chrome.exe"][i]] = One

\* C1, the failing run: the line has been read, no event was emitted and the
\* sessions keep the volume they had.
C1_NothingEmitted ==
    /\ C1_LineRead
    /\ lastEvents = <<>>
    /\ \A s \in SessionsOf(m) : volume[s] = DiscoveredVolume

\* C2: when the discovery query fails during a refresh, the map and the
\* unmapped sessions are after the refresh what they were before it, and every
\* key cached before it is still found with its sessions.
C2_RetainedOnFailure ==
    (lastRefresh.queried /\ lastRefresh.err) =>
        /\ lastRefresh.after.m = lastRefresh.before.m
        /\ lastRefresh.after.unmappedSessions = lastRefresh.before.unmappedSessions
        /\ \A k \in DOMAIN lastRefresh.before.m :
              /\ k \in DOMAIN lastRefresh.after.m
              /\ lastRefresh.after.m[k] = lastRefresh.before.m[k]

\* C2, the failing run: the first refresh after the start, of a map holding a
\* master session and with one unmapped session, has returned with its query
\* failed, the map empty and no unmapped session.
C2_EmptiedOnFailure ==
    /\ lastRefresh.queried
    /\ lastRefresh.err
    /\ nQueries = 2
    /\ masterSessionName \in DOMAIN lastRefresh.before.m
    /\ Len(lastRefresh.before.unmappedSessions) = 1
    /\ unmappedSessions = <<>>
    /\ lastRefresh.after.m = EmptyMap
    /\ m = EmptyMap
    /\ ~get(masterSessionName).ok

\* C3: after a refresh that passed the gate and whose query succeeded, the map
\* holds exactly the sessions that query returned, grouped by key, and every
\* session cached before the refresh has been released exactly once and is no
\* longer in the map.
C3_ReplacedWholesale ==
    (lastRefresh.queried /\ ~lastRefresh.err) =>
        /\ lastRefresh.after.m = GroupedByKey(lastRefresh.fetched)
        /\ \A s \in SessionsOf(lastRefresh.after.m) : lastRefresh.after.releases[s] = 0
        /\ \A s \in SessionsOf(lastRefresh.before.m) :
              /\ lastRefresh.after.releases[s] = 1
              /\ s \notin SessionsOf(lastRefresh.after.m)

\* C3, the failing run: a refresh whose query succeeded has returned, and the
\* map holds the sessions of two queries.
C3_TwoQueriesInMap ==
    /\ lastRefresh.queried
    /\ ~lastRefresh.err
    /\ \E s, t \in SessionsOf(lastRefresh.after.m) : s.q # t.q

\* the last two refreshSessions(false) calls were made less than 5 s apart
C4_TwoWithinCooldown ==
    /\ Len(falseCalls) = 2
    /\ falseCalls[2].at - falseCalls[1].at < minTimeBetweenSessionRefreshes

\* the refreshSessions call that returned last was not forced and was made
\* less than 5 s after the last refresh
C4_WithinCooldown ==
    /\ lastRefresh.caller \in Callers
    /\ ~lastRefresh.force
    /\ lastRefresh.at < lastRefresh.before.lastSessionRefresh
                            + minTimeBetweenSessionRefreshes

\* a non-forced call less than 5 s after the last refresh is a no-op (no
\* query, nothing released, the registry as it was), and a forced call queries
C4_GateAndForce ==
    /\ C4_WithinCooldown =>
          ~lastRefresh.queried /\ lastRefresh.after = lastRefresh.before
    /\ lastRefresh.force => lastRefresh.queried

\* C4 as stated: two refresh(false) calls within 5 s of each other perform
\* exactly one query between them; a non-forced call within 5 s of the last
\* refresh is a no-op; a forced call always queries.
C4_ExactlyOneQuery ==
    /\ C4_TwoWithinCooldown => (falseCalls[1].queried # falseCalls[2].queried)
    /\ C4_GateAndForce

\* C4 amended: two refresh(false) calls made one after the other within 5 s
\* perform at most one query, the second none when the first has queried; a
\* non-forced call less than 5 s after the last refresh is a no-op, one 5 s or
\* more after it queries; a forced call always queries.
C4_Cooldown ==
    /\ C4_TwoWithinCooldown => ~(falseCalls[1].queried /\ falseCalls[2].queried)
    /\ (/\ lastRefresh.caller \in Callers
        /\ ~lastRefresh.force
        /\ lastRefresh.at >= lastRefresh.before.lastSessionRefresh
                                 + minTimeBetweenSessionRefreshes) => lastRefresh.queried
    /\ C4_GateAndForce

\* C4, its case: of two refresh(false) calls within 5 s the first has queried
\* and the second, the call that returned last, has not.
C4_SecondGated ==
    /\ C4_TwoWithinCooldown
    /\ falseCalls[1].queried
    /\ ~falseCalls[2].queried
    /\ falseCalls[2].at > falseCalls[1].at
    /\ C4_WithinCooldown

\* C5: a line that matches the grammar and has a field above 1023 delivers no
\* event, not even for the valid, changed fields before that field.
C5_NoPartialEvents ==
    (/\ lastRepeat > 0
     /\ expectedLinePattern(lastLine)
     /\ \E i \in 1..Len(WireFields(lastLine)) : Atoi(WireFields(lastLine)[i]).val > 1023) =>
        lastEvents = <<>>

\* C5, its case: "512|2000" CR LF has been processed; its first field was
\* valid and changed the cached value of slider 0, and no event was delivered.
C5_ValidFieldBeforeInvalid ==
    /\ lastLine = "512|2000\r\n"
    /\ lastKnownNumSliders = 2
    /\ prevNumSliders # 2
    /\ currentSliderPercentValues[1] = ScaledField("512")
    /\ lastEvents = <<>>

\* C6: when the decode loop reads a line that does not match the grammar, no
\* event is sent, the field count and the cached values stay as they were,
\* and the loop is still reading.
C6_MalformedDropped ==
    [][(/\ <<lastLine, lastRepeat>>' # <<lastLine, lastRepeat>>
        /\ ~WireGrammar(lastLine')) =>
           /\ lastEvents' = <<>>
           /\ lastDelivered' = lastDelivered
           /\ lastKnownNumSliders' = lastKnownNumSliders
           /\ currentSliderPercentValues' = currentSliderPercentValues
           /\ connected']_vars

\* C6, its case: the loop has read "5x" CR LF and is still connected.
C6_MalformedRead ==
    /\ lastLine = "5x\r\n"
    /\ lastRepeat = 1
    /\ lastEvents = <<>>
    /\ connected

\* the line most recently read is valid: it matches the grammar and every
\* field is in 0..1023
ValidLineRead == lastRepeat > 0 /\ WireValid(lastLine)

\* C7: a valid line whose field count differs from the last-seen count sets
\* the count and produces one event for every field index, in order, each
\* carrying the field's value.
C7_CountChangeFiresAll ==
    (ValidLineRead /\ Len(WireFields(lastLine)) # prevNumSliders) =>
        /\ lastKnownNumSliders = Len(WireFields(lastLine))
        /\ lastEvents = [i \in 1..Len(WireFields(lastLine)) |->
                            SliderMoveEvent(i - 1, ScaledField(WireFields(lastLine)[i]))]

\* C7, the failing run: a valid line of two fields has been read by a decoder
\* whose count was 0; the count is still 0 and no event was produced.
C7_CountChangeIgnored ==
    /\ ValidLineRead
    /\ Len(WireFields(lastLine)) = 2
    /\ prevNumSliders = 0
    /\ lastKnownNumSliders = 0
    /\ lastEvents = <<>>

\* the sliders whose value the most recently read line changes significantly
C8_Changed ==
    LET fields == WireFields(lastLine)
    IN  {i \in 1..Len(fields) :
            SignificantlyDifferent(
                IF Len(fields) # prevNumSliders THEN -One ELSE prevValues[i],
                ScaledField(fields[i]), NoiseReductionLevel)}

\* C8: the first occurrence of a valid line yields exactly one event per
\* changed slider, and a consecutive repetition of it yields no event.
C8_Idempotent ==
    ValidLineRead =>
        IF lastRepeat = 1
        THEN /\ Len(lastEvents) = Cardinality(C8_Changed)
             /\ \A i \in C8_Changed :
                   \E j \in 1..Len(lastEvents) : lastEvents[j].SliderID = i - 1
        ELSE lastEvents = <<>>

\* C8, the failing run: a valid line changing a slider has been read for the
\* first time and has yielded no event.
C8_FirstOccurrenceSilent ==
    /\ ValidLineRead
    /\ lastRepeat = 1
    /\ C8_Changed # {}
    /\ lastEvents = <<>>

\* the stated condition, old and new in thousandths
C9_Exact(old, new, level) ==
    LET T == CASE level = "low" -> 15 [] level = "high" -> 35 [] OTHER -> 25
    IN  \/ Abs(old - new) >= T
        \/ new = 1000 /\ old # 1000
        \/ new = 0 /\ old # 0

\* C9: SignificantlyDifferent(old, new, level) is true exactly when
\* |old - new| >= T(level), or new is 1.0 and old is not, or new is 0.0 and
\* old is not, with T(low) = 0.015, T(high) = 0.035 and T = 0.025 otherwise.
C9_Iff ==
    sdResult # <<>> => (sdResult[1] <=> C9_Exact(sdArgs[1], sdArgs[2], sdArgs[3]))

\* C9, the failing call: SignificantlyDifferent(0.50, 0.525, default) has
\* returned false.
C9_HalfAndThreshold ==
    /\ sdArgs = <<500, 525, "default">>
    /\ sdResult = <<FALSE>>

\* C10: if the most recent accepted line reported for a slider a value that
\* normalizes to exactly 1.00 or 0.00, the most recent event delivered for
\* that slider carries that value.
C10_FullTravel ==
    lastAccepted # "" =>
        \A i \in 1..Len(WireFields(lastAccepted)) :
            LET v == ScaledField(WireFields(lastAccepted)[i])
            IN  v \in {0, One} =>
                    /\ (i - 1) \in DOMAIN lastDelivered
                    /\ lastDelivered[i - 1] = v

\* C10, the failing run: the most recent accepted line reported 1023 for
\* slider 0 without inversion, and no event was ever delivered for slider 0.
C10_SnapMissed ==
    /\ lastAccepted = "1023\r\n"
    /\ ~InvertSliders
    /\ 0 \notin DOMAIN lastDelivered

\* the float32 nearest to k hundredths
Hundredths(k) == F32Ratio(k, 100)

\* C11: for every raw value in 0..1023 the normalized value is
\* floor(raw * 100 / 1023) hundredths: it lies in [0.00, 1.00], is a whole
\* number of hundredths and is truncated, not rounded (511 gives 0.49, 512
\* gives 0.50, 0 gives 0.00, 1023 gives 1.00).
C11_FloorOfHundredths ==
    normResult # <<>> =>
        /\ normResult[1] = Hundredths((normArg * 100) \div 1023)
        /\ normResult[1] >= 0 /\ normResult[1] <= One
        /\ \E k \in 0..100 : normResult[1] = Hundredths(k)
        /\ normArg = 511 => normResult[1] = Hundredths(49)
        /\ normArg = 512 => normResult[1] = Hundredths(50)
        /\ normArg = 0 => normResult[1] = 0
        /\ normArg = 1023 => normResult[1] = One

\* v is a whole number of hundredths as float32 arithmetic gives it: the
\* float32 nearest to k/100, or, when computed as 1 - k/100, within 2^-24 of it
NearHundredths(v) == \E k \in 0..100 : Abs(v - Hundredths(k)) <= One \div F32Mantissa

\* the reading of a field text: floor(raw * 100 / 1023) hundredths
C12_Reading(text) == Hundredths((DigitsValue(text, Len(text)) * 100) \div 1023)

\* C12: every event processLine builds for a line, and so every event it
\* delivers, has a SliderID in 0..(field count of the line - 1) and a
\* PercentValue in [0.00, 1.00] that is a whole number of hundredths: the
\* normalized reading of its field, and 1 minus it with inversion configured.
C12_EventsInRange ==
    \A e \in Range(lastCollected) \cup Range(lastEvents) :
        LET fields == Split(lastLine, "|")
        IN  /\ e.SliderID \in 0..(Len(fields) - 1)
            /\ e.PercentValue >= 0 /\ e.PercentValue <= One
            /\ NearHundredths(e.PercentValue)
            /\ e.PercentValue = IF InvertSliders
                                THEN F32Sub(One, C12_Reading(fields[e.SliderID + 1]))
                                ELSE C12_Reading(fields[e.SliderID + 1])

\* C12, its case: with inversion configured, processLine has built the event
\* (0, 0.00) for the first field of "1023|512" CR LF, 1 minus the reading 1.00.
C12_InvertedEventBuilt ==
    /\ InvertSliders
    /\ lastLine = "1023|512\r\n"
    /\ lastCollected = <<SliderMoveEvent(0, 0)>>

\* C13: a valid line delivers its events in strictly ascending slider-index
\* order, at most one per index, and exactly one for each slider whose value
\* changed significantly.
C13_AscendingOnePerChange ==
    ValidLineRead =>
        /\ \A j, k \in 1..Len(lastEvents) :
              j < k => lastEvents[j].SliderID < lastEvents[k].SliderID
        /\ {lastEvents[j].SliderID : j \in 1..Len(lastEvents)} = {i - 1 : i \in C8_Changed}

\* C13, the failing run: the decode loop has read "512|1023" CR LF for the
\* first time; both sliders changed significantly and no event was delivered.
C13_ChangedButNoEvent ==
    /\ lastLine = "512|1023\r\n"
    /\ ValidLineRead
    /\ C8_Changed = {1, 2}
    /\ lastEvents = <<>>

\* C11, its case: 511, whose hundredths are 49.95, has been normalized to 0.49.
C11_Truncated ==
    /\ normArg = 511
    /\ normResult = <<Hundredths(49)>>

\* a target is special: its lowercased form starts with deej.
SpecialTarget(target) == HasPrefix(ToLower(target), "deej.")

\* the keys the claim counts as unmapped: of the keys discovered, those that
\* are not master, system or mic, do not look like NAME (DETAIL), and are not
\* the lowercased form of a non-special target of the mapping
C15_UnmappedKeys(mapping, keys) ==
    {k \in Range(keys) :
        /\ k \notin {"master", "system", "mic"}
        /\ ~deviceSessionKeyPattern(k)
        /\ \A i \in DOMAIN mapping : \A t \in 1..Len(mapping[i]) :
              SpecialTarget(mapping[i][t]) \/ ToLower(mapping[i][t]) # k}

\* C15: after a successful population, deej.unmapped resolves to exactly the
\* unmapped keys of the sessions discovered, under the mapping read at
\* population time, whatever the mapping has become since.
C15_UnmappedAsOfPopulation ==
    (populated.ok /\ resolveCall.arg = "deej.unmapped") =>
        Range(resolveCall.result) = C15_UnmappedKeys(populated.mapping, populated.keys)

\* C15, the failing run: under the mapping {0: [master], 1: [Deej.Current]},
\* with spotify.exe in the foreground, a population has found spotify.exe,
\* and deej.unmapped does not resolve to it.
C15_ForegroundCountedAsMapped ==
    /\ populated.ok
    /\ populated.mapping = MasterAndMixedCaseCurrent
    /\ populated.keys = MasterSpotifyAndSpeakers
    /\ resolveCall.arg = "deej.unmapped"
    /\ resolveCall.result = <<>>

\* C16: resolve(name) lowercases the name first; without the deej. prefix the
\* result is the lowercased name alone; deej.current gives the foreground
\* process names lowercased and without duplicates, none when the foreground
\* query fails; deej.unmapped gives the keys of the registry's unmapped
\* sessions; any other deej.<suffix> gives nothing.
C16_Resolve ==
    resolveCall.arg # "" =>
        LET lower  == ToLower(resolveCall.arg)
            result == resolveCall.result
        IN  /\ CASE ~HasPrefix(lower, "deej.") -> result = <<lower>>
                 [] lower = "deej.current" ->
                       IF resolveCall.window.err THEN result = <<>>
                       ELSE /\ \A i, j \in 1..Len(result) : result[i] = result[j] => i = j
                            /\ Range(result) = {ToLower(resolveCall.window.names[i]) :
                                                   i \in 1..Len(resolveCall.window.names)}
                 [] lower = "deej.unmapped" ->
                       result = [i \in 1..Len(unmappedSessions) |-> unmappedSessions[i].key]
                 [] OTHER -> result = <<>>
            /\ resolveCall.arg = "Chrome.exe" => result = <<"chrome.exe">>
            /\ resolveCall.arg \in {"deej.other", "deej."} => result = <<>>

\* C16, its case: Deej.Current has been resolved with Spotify.exe and
\* spotify.exe reported in the foreground, to spotify.exe alone.
C16_CurrentResolved ==
    /\ resolveCall.arg = "Deej.Current"
    /\ ~resolveCall.window.err
    /\ resolveCall.result = <<"spotify.exe">>

\* ---- the slider-move consumer
\* the SetVolume calls of a log, and the sessions they were made on
SetVolumeCalls(log) == SelectSeq(log, LAMBDA c : c.op = "SetVolume")

SetVolumeSessions(log) ==
    [i \in 1..Len(SetVolumeCalls(log)) |-> SetVolumeCalls(log)[i].session]

\* the refreshSessions calls of a log made after the loops
FollowUps(log) == SelectSeq(log, LAMBDA c : c.op = "refreshSessions" /\ c.when = "after")

\* a lookup of the log found sessions; a SetVolume call of the log failed
SomeTargetFound(log) == \E i \in 1..Len(log) : log[i].op = "get" /\ log[i].ok

SomeSetVolumeFailed(log) == \E i \in 1..Len(log) : log[i].op = "SetVolume" /\ log[i].err

\* the cached sessions of the keys, key after key
RECURSIVE SessionsOfKeys(_, _)
SessionsOfKeys(keys, j) ==
    IF j > Len(keys) THEN <<>>
    ELSE (IF keys[j] \in DOMAIN m THEN m[keys[j]] ELSE <<>>) \o SessionsOfKeys(keys, j + 1)

\* the cached sessions of the keys the targets resolve to, in configured order
RECURSIVE SessionsOfTargets(_, _)
SessionsOfTargets(targets, t) ==
    IF t > Len(targets) THEN <<>>
    ELSE SessionsOfKeys(resolveTarget(targets[t], unmappedSessions), 1)
            \o SessionsOfTargets(targets, t + 1)

\* the cached sessions whose volume differs from the value of the event being
\* handled, in the order of the slider's targets
SessionsToSet ==
    SelectSeq(SessionsOfTargets(SliderMapping[consumer.event.SliderID], 1),
              LAMBDA session : volume[session] # consumer.event.PercentValue)

\* the consumer goes through the targets of a mapped slider in this step
ApplyStep ==
    /\ consumer.pc = "apply"
    /\ consumer'.pc # "apply"
    /\ consumer.event.SliderID \in DOMAIN SliderMapping

\* the consumer tests the age of the map in this step
StaleStep == consumer.pc = "stale" /\ consumer'.pc = "apply"

\* C14: the events the consumer handles are the events the decode loop
\* emitted, in the same order, none lost, repeated or merged; the handling of
\* an event, with its SetVolume calls and its refresh, has returned before the
\* next event is received.
C14_SameSequenceOneAtATime ==
    /\ [](/\ handled = SubSeq(emitted, 1, Len(handled))
          /\ Len(handled) + Len(pending) = Len(emitted)
          /\ Len(calls) = Len(handled)
          /\ completed \in {Len(handled) - 1, Len(handled)})
    /\ [][Len(handled') > Len(handled) => completed = Len(handled)]_vars
    /\ [][\A k \in 1..Len(calls) :
            calls'[k] # calls[k] => (k = Len(handled) /\ completed = k - 1)]_vars

\* C14, its case: two different events were emitted, and both have been
\* handled, in that order, each with calls of its own.
C14_TwoHandledInOrder ==
    /\ Len(emitted) = 2
    /\ emitted[1] # emitted[2]
    /\ handled = emitted
    /\ completed = 2
    /\ calls[1] # <<>>
    /\ calls[2] # <<>>

\* C17: handling an event for a mapped slider calls SetVolume(event value) on
\* every cached session of every key of every target of the slider whose
\* volume differs from the value, in configured order, and on no other
\* session.
C17_ApplyToAll ==
    [][ApplyStep =>
          /\ SetVolumeSessions(calls'[Len(calls')]) = SessionsToSet
          /\ \A i \in 1..Len(SetVolumeCalls(calls'[Len(calls')])) :
                SetVolumeCalls(calls'[Len(calls')])[i].value = consumer.event.PercentValue]_vars

\* C17, its case: the event (0, 0.50) has been handled under the mapping
\* 0 -> [master, chrome.exe]: SetVolume was called on the master session and
\* on both chrome.exe sessions, and all three are at 0.50.
C17_GroupApplied ==
    /\ completed = 1
    /\ handled = <<SliderMoveEvent(0, Half)>>
    /\ SetVolumeSessions(calls[1]) = m["master"] \o m["chrome.exe"]
    /\ Len(m["chrome.exe"]) = 2
    /\ \A session \in Range(m["master"] \o m["chrome.exe"]) : volume[session] = Half

\* C18: for a mapped slider, when no resolved key had cached sessions exactly
\* one refreshSessions(false) is called after the event; otherwise, when a
\* SetVolume call failed, exactly one refreshSessions(true); otherwise none.
C18_FollowUpPolicy ==
    \A k \in 1..completed :
        handled[k].SliderID \in DOMAIN SliderMapping =>
            IF ~SomeTargetFound(calls[k])
            THEN /\ Len(FollowUps(calls[k])) = 1
                 /\ ~FollowUps(calls[k])[1].force
                 /\ calls[k][Len(calls[k])] = FollowUps(calls[k])[1]
            ELSE IF SomeSetVolumeFailed(calls[k])
            THEN /\ Len(FollowUps(calls[k])) = 1
                 /\ FollowUps(calls[k])[1].force
                 /\ calls[k][Len(calls[k])] = FollowUps(calls[k])[1]
            ELSE FollowUps(calls[k]) = <<>>

\* C18, its case: the event for slider 2, mapped to an application without
\* sessions, has been handled: one lookup that found nothing, then one
\* refreshSessions(false).
C18_NotFoundRefreshRequested ==
    /\ completed = 1
    /\ handled[1].SliderID = 2
    /\ Len(calls[1]) = 2
    /\ calls[1][1].op = "get" /\ ~calls[1][1].ok
    /\ calls[1][2].op = "refreshSessions" /\ ~calls[1][2].force

\* C19: an event handled more than 45 s after the last refresh is preceded by
\* a forced refresh (every cached session released, one discovery query)
\* before any lookup or SetVolume call; an event handled within 45 s is
\* preceded by no refresh.
C19_StaleRefreshFirst ==
    /\ [][StaleStep =>
            IF now - lastSessionRefresh > 45
            THEN /\ Len(calls'[Len(calls')]) = 1
                 /\ calls'[Len(calls')][1].op = "refreshSessions"
                 /\ calls'[Len(calls')][1].force
                 /\ calls'[Len(calls')][1].queried
                 /\ nQueries' = nQueries + 1
                 /\ \A session \in SessionsOf(m) : releases'[session] = releases[session] + 1
            ELSE /\ calls' = calls
                 /\ <<m, unmappedSessions, lastSessionRefresh, nQueries, releases>>'
                       = <<m, unmappedSessions, lastSessionRefresh, nQueries, releases>>]_vars
    /\ [](\A k \in 1..Len(calls) : \A i \in 1..Len(calls[k]) :
              (calls[k][i].op = "refreshSessions" /\ calls[k][i].when = "before") => i = 1)

\* C19, its case: an event was received more than 45 s after the last
\* refresh; a forced refresh came first and the lookup after it.
C19_RefreshedBeforeLookup ==
    /\ Len(calls) >= 1
    /\ Len(calls[1]) >= 2
    /\ calls[1][1].op = "refreshSessions" /\ calls[1][1].when = "before"
    /\ calls[1][2].op = "get"

\* C20: when a SetVolume call fails, SetVolume is still called on every other
\* session of the event's targets that differs from the value, a forced
\* refresh follows once all targets have been gone through, and the consumer
\* is back at its receive for the next event.
C20_FailureDoesNotAbort ==
    /\ [][(ApplyStep /\ SomeSetVolumeFailed(calls'[Len(calls')])) =>
             /\ SetVolumeSessions(calls'[Len(calls')]) = SessionsToSet
             /\ consumer'.pc = "followup"]_vars
    /\ [](\A k \in 1..completed :
             SomeSetVolumeFailed(calls[k]) =>
                /\ calls[k][Len(calls[k])].op = "refreshSessions"
                /\ calls[k][Len(calls[k])].when = "after"
                /\ calls[k][Len(calls[k])].force)
    /\ [](completed = Len(handled) => consumer = Receiving)

\* C20, its case: SetVolume failed on the first chrome.exe session of the
\* first event, was still called on the second one, and a second event has
\* been handled since.
C20_HandledAfterFailure ==
    /\ completed = 2
    /\ \E i \in 1..(Len(calls[1]) - 1) :
          /\ calls[1][i].op = "SetVolume" /\ calls[1][i].err /\ calls[1][i].session.i = 2
          /\ calls[1][i + 1].op = "SetVolume" /\ calls[1][i + 1].session.i = 3
    /\ calls[2] # <<>>

\* the event being handled is for a slider without an entry in the mapping
UnmappedEventInHand ==
    /\ consumer.pc \in {"stale", "apply"}
    /\ consumer.event.SliderID \notin DOMAIN SliderMapping

\* C21 as stated: an event for a slider without an entry in the SliderMapping
\* causes no SetVolume call and leaves the cached sessions, the unmapped
\* sessions and the time of the last refresh as they were.
C21_UnmappedIgnored ==
    [][UnmappedEventInHand =>
          /\ SetVolumeCalls(calls'[Len(calls')]) = <<>>
          /\ <<m, unmappedSessions, lastSessionRefresh>>'
                = <<m, unmappedSessions, lastSessionRefresh>>]_vars

\* C21 amended: such an event causes no lookup of sessions, no SetVolume call
\* and no refresh after it, and it leaves the registry and every volume as
\* they were, unless the last refresh is more than 45 s old when the event is
\* handled: then the forced refresh that precedes every event is made, and
\* nothing else.
C21_UnmappedIgnoredUnlessStale ==
    /\ [][UnmappedEventInHand =>
            /\ \A session \in DOMAIN volume : volume'[session] = volume[session]
            /\ \/ <<m, unmappedSessions, lastSessionRefresh, releases, nQueries, calls>>'
                     = <<m, unmappedSessions, lastSessionRefresh, releases, nQueries, calls>>
               \/ /\ StaleStep
                  /\ now - lastSessionRefresh > 45
                  /\ calls[Len(calls)] = <<>>
            /\ (consumer.pc = "apply" /\ consumer' # consumer) =>
                  (consumer' = Receiving /\ calls' = calls)]_vars
    /\ [](\A k \in 1..Len(calls) :
             handled[k].SliderID \notin DOMAIN SliderMapping =>
                \/ calls[k] = <<>>
                \/ /\ Len(calls[k]) = 1
                   /\ calls[k][1].op = "refreshSessions"
                   /\ calls[k][1].when = "before"
                   /\ calls[k][1].force)

\* C21, its case: the event for slider 3, which has no entry, was handled 45 s
\* after the last refresh, when the registry is not stale and a refresh
\* without force would query: no call was made for it and the registry is
\* as the first query left it.
C21_UnmappedHandled ==
    /\ completed = 1
    /\ handled[1].SliderID = 3
    /\ now - lastSessionRefresh = 45
    /\ calls[1] = <<>>
    /\ nQueries = 1

\* C29: the decoder goes on to its next line only when every event of the
\* current line has been received; an event leaves the decoder only in a step
\* in which the consumer, back at its receive, takes it, so that while the
\* consumer is busy with an event the decoder waits in its send; what has
\* been emitted is what has been received followed by what the decoder still
\* holds, nothing in between and nothing lost.
C29_Backpressure ==
    /\ [][emitted' # emitted => (pending = <<>> /\ handled = emitted)]_vars
    /\ [][pending' # pending =>
            \/ emitted' # emitted
            \/ /\ consumer = Receiving
               /\ completed = Len(handled)
               /\ pending' = Tail(pending)
               /\ consumer'.event = Head(pending)
               /\ handled' = Append(handled, Head(pending))]_vars
    /\ [](handled \o pending = emitted)

\* C29, its case: the line had two events; the consumer is busy with the
\* first, whose SetVolume calls have been made and whose refresh is still to
\* come, and the decoder waits in its send with the second.
C29_DecoderBlocked ==
    /\ Len(emitted) = 2
    /\ Len(handled) = 1
    /\ Len(pending) = 1
    /\ consumer.pc = "followup"
    /\ SetVolumeCalls(calls[1]) # <<>>

C25_ReadFailureEndsLoop ==
    /\ [][(readLoop = "select" /\ readLoop' = "done") =>
            /\ conn' = "nil"
            /\ ~connected'
            /\ ~portOpen'
            /\ UNCHANGED <<lastKnownNumSliders, currentSliderPercentValues, lineObsVars>>]_vars
    /\ [](readLoop = "done" => (conn = "nil" /\ ~connected /\ ~portOpen))
    /\ [][readLoop = "done" =>
            UNCHANGED <<readLoop, conn, connected, portOpen, lastKnownNumSliders,
                        currentSliderPercentValues, lineObsVars, consumerVars>>]_vars

\* C25, its case: lines had been read from the port, the last of them
\* "512|1023" CR LF, when a read failed.
C25_FailedAfterLines ==
    /\ readLoop = "done"
    /\ lastLine = "512|1023\r\n"
    /\ lastRepeat = 2
    /\ conn = "nil"
    /\ ~connected

\* the consumer goroutines are loops around a receive without a way out
\* (part_005:106-114, 120-127): they end with the process
ConsumersExited == runPc = "exited"

\* C24: once the shutdown signal has come, the consumers and the decode loop
\* eventually end and the port is eventually closed, whether or not another
\* line arrives.
C24_ShutdownCompletes ==
    (runPc # "waiting") ~> (ConsumersExited /\ readLoop = "done" /\ ~portOpen)

\* C24, its case: the stop has been asked for while the decode loop waits for
\* a line: Stop waits in its send on stopChannel, the loop waits in
\* ReadString, the port is open and every goroutine is alive.
C24_StopWaitsForLine ==
    /\ runPc = "sending"
    /\ readLoop = "read"
    /\ portOpen
    /\ connected

\* the list the merge law gives index key k: the user's list without empty
\* strings, then the internal targets that are non-empty and not in it
MergeLaw(userMapping, internalMapping, k) ==
    LET user     == IF k \in DOMAIN userMapping
                    THEN FilterTargets(userMapping[k], <<>>) ELSE <<>>
        internal == IF k \in DOMAIN internalMapping THEN internalMapping[k] ELSE <<>>
    IN  user \o FilterTargets(internal, user)

\* a Load has assigned cc.SliderMapping and no other is under way
LoadReturned == loading.pc = "idle" /\ loading.populated /\ ~loading.err

\* C22: after a load, every index key of either source that parses as an
\* integer maps to the user's list with empty strings removed followed by the
\* internal targets that are non-empty and absent from it, and no other index
\* is mapped
C22_MergeLaw ==
    LoadReturned =>
       LET keys == {k \in DOMAIN userConfig.slider_mapping \cup DOMAIN internalConfig :
                       ~Atoi(k).err}
       IN  /\ DOMAIN SliderMapping = {Atoi(k).val : k \in keys}
           /\ \A k \in keys :
                 SliderMapping[Atoi(k).val]
                    = MergeLaw(userConfig.slider_mapping, internalConfig, k)

\* no two keys of the loaded sources parse to the same index
KeysDistinct ==
    \A k1, k2 \in DOMAIN userConfig.slider_mapping \cup DOMAIN internalConfig :
       (~Atoi(k1).err /\ ~Atoi(k2).err /\ Atoi(k1).val = Atoi(k2).val) => k1 = k2

\* C22 (amended): the merge law holds of every load whose sources have no two
\* keys that parse to the same index
C22_MergeLawForDistinctKeys == KeysDistinct => C22_MergeLaw

\* C22: a load has merged {"0": ["a", ""]} with {"0": ["a", "b"]} into
\* 0 -> ["a", "b"]
C22_MergedWithoutDuplicate ==
    /\ LoadReturned
    /\ KeysDistinct
    /\ userConfig.slider_mapping = ("0" :> <<"a", "">>)
    /\ internalConfig = ("0" :> <<"a", "b">>)
    /\ SliderMapping = (0 :> <<"a", "b">>)

\* C23: once Load has returned for a user configuration without a slider
\* mapping, cc.SliderMapping is the single entry 0 -> ["master"]
C23_DefaultMapping ==
    (loading.pc = "idle" /\ loading.loads > 0
        /\ (~userConfig.file \/ userConfig.slider_mapping = EmptyMap))
       => (loading.populated /\ SliderMapping = (0 :> <<masterSessionName>>))

\* C23: a load of a config.yaml without slider_mapping, and of no
\* preferences, has left cc.SliderMapping empty
C23_EmptyMappingLoaded ==
    /\ LoadReturned
    /\ userConfig.file
    /\ userConfig.slider_mapping = EmptyMap
    /\ internalConfig = EmptyMap
    /\ SliderMapping = EmptyMap

\* C26: what a get or an iterate on cc.SliderMapping observes is the whole
\* mapping of before the load under way or the whole mapping that load ends
\* with, and a mapping assigned is the whole result of its load
C26_WholeMappingSeen ==
    /\ sliderGot.key # -1 =>
          /\ sliderGot.seen \in {sliderGot.old, sliderGot.new}
          /\ sliderGot.ok = (sliderGot.key \in DOMAIN sliderGot.seen)
          /\ sliderGot.ok => sliderGot.targets = sliderGot.seen[sliderGot.key]
    /\ LoadReturned =>
          SliderMapping = sliderMapFromConfigs(userConfig.slider_mapping, internalConfig,
                                               loading.userOrder, loading.internalOrder)

\* C26: a get was made while sliderMapFromConfigs held a partly built map
C26_GetDuringBuild ==
    /\ sliderGot.key # -1
    /\ sliderGot.during
    /\ sliderGot.building \notin {sliderGot.old, sliderGot.new}
    /\ sliderGot.key \in DOMAIN sliderGot.building
    /\ sliderGot.ok
    /\ sliderGot.targets # sliderGot.building[sliderGot.key]

\* C27: a get made while one refresh was between clear() and the answer of
\* its query saw the map as it was before that refresh or as that refresh
\* left it
C27_SnapshotSeen ==
    (/\ lookup.key # ""
     /\ lookup.under = {lastRefresh.caller}
     /\ lastRefresh.queried
     /\ nQueries = lookup.q + 1)
       => lookup.m \in {lastRefresh.before.m, lastRefresh.after.m}

\* C27: a get made between clear() and the query's answer found no session
\* under a key that had one before the refresh
C27_EmptyMapSeen ==
    /\ lookup.key # ""
    /\ lookup.under # {}
    /\ ~lookup.ok
    /\ lookup.m = EmptyMap
    /\ \E c \in lookup.under :
          /\ refreshCall[c].pc = "query"
          /\ lookup.key \in DOMAIN refreshCall[c].before.m

EventsFor(events, id) == SelectSeq(events, LAMBDA e : e.SliderID = id)

C32_BoundedDrift ==
    ValidLineRead =>
        \A i \in 1..Len(WireFields(lastLine)) :
            /\ i <= Len(currentSliderPercentValues)
            /\ ~GeDecimal(Abs(currentSliderPercentValues[i]
                                 - ScaledField(WireFields(lastLine)[i])),
                          getSignificantDifferenceThreshold(NoiseReductionLevel), 1000)

\* C32, the failing run: "512|1023" CR LF has been read twice in a row and the
\* decoder holds no cached value for either slider.
C32_ReadingNeverCached ==
    /\ ValidLineRead
    /\ lastLine = "512|1023\r\n"
    /\ lastRepeat = 2
    /\ currentSliderPercentValues = <<>>


\* C33: GetVolume and SetVolume are never called on a session on which
\* Release has been called.
C33_NoUseAfterRelease ==
    lookup.key # "" => \A i \in 1..Len(lookup.used) : ~lookup.used[i].released

\* C33, the failing run: the consumer got the master session, a refresh of
\* another goroutine released it in clear(), and the consumer then called
\* GetVolume and SetVolume on it.
C33_ReleasedSessionUsed ==
    /\ lookup.key = "master"
    /\ lookup.ok
    /\ lookup.under = {}
    /\ Len(lookup.used) = 1
    /\ lookup.used[1].released
    /\ releases[lookup.used[1].session] = 1


\* no refreshSessions call is under way
RefreshesFinished == \A c \in Callers : refreshCall[c].pc = "idle"

\* C34: once the refreshSessions calls have finished, the sessions in the map
\* are those of a single discovery query, and every unmapped session is a
\* session of the map.
C34_OneQueryInMap ==
    (RefreshesFinished /\ ~panicked) =>
        /\ \A s, t \in SessionsOf(m) : s.q = t.q
        /\ Range(unmappedSessions) \subseteq SessionsOf(m)

\* C34, the failing run: two refreshSessions calls have overlapped and
\* finished, and the list of the master key holds the master session of the
\* one query followed by that of the other.
C34_ListOfTwoQueries ==
    /\ RefreshesFinished
    /\ masterSessionName \in DOMAIN m
    /\ Len(m[masterSessionName]) = 2
    /\ m[masterSessionName][1].q # m[masterSessionName][2].q
    /\ nQueries = 3


\* C35: a Stop() that has gone to its send on stopChannel eventually returns.
C35_StopReturns == (runPc = "sending") ~> (runPc # "sending")

\* C35, the failing run: Stop() saw connected = true and waits in its send;
\* the read then failed, readLoop closed the connection and returned, and no
\* goroutine is left to receive.
C35_StopWithoutReceiver ==
    /\ runPc = "sending"
    /\ readLoop = "done"
    /\ ~connected
    /\ conn = "nil"
    /\ ~portOpen


\* C36: computing the unmapped set never takes element 0 of an empty
\* resolution: no population and no refresh ends in the index-out-of-range
\* panic of sessionMapped, whatever the letter case of the targets.
C36_PopulationNeverPanics == ~panicked

\* C36, the failing run: under the mapping {0: [master], 1: [Deej.Current]} a
\* refresh has found the sessions and sessionMapped has panicked on the
\* empty resolution of Deej.Current.
C36_PanickedOnMixedCase ==
    /\ panicked
    /\ nQueries = 2
    /\ populated.mapping = MasterAndMixedCaseCurrent
    /\ populated.keys = MasterSpotifyAndSpeakers
    /\ ~populated.ok
    /\ ~targetHasSpecialTransform("Deej.Current")
    /\ resolveTarget("Deej.Current", unmappedSessions) = <<>>


\* C37: the list resolveTarget returns for deej.unmapped (in any letter
\* case) holds no key twice.
C37_UnmappedKeysOnce ==
    (resolveCall.arg # "" /\ ToLower(resolveCall.arg) = "deej.unmapped") =>
        \A i, j \in 1..Len(resolveCall.result) :
            resolveCall.result[i] = resolveCall.result[j] => i = j

\* C37, the failing call: with two chrome.exe sessions unmapped,
\* deej.unmapped has resolved to chrome.exe twice.
C37_SharedKeyTwice ==
    /\ resolveCall.arg = "deej.unmapped"
    /\ resolveCall.result = <<"chrome.exe", "chrome.exe">>
    /\ Len(unmappedSessions) = 2
    /\ unmappedSessions[1] # unmappedSessions[2]
    /\ Len(get("chrome.exe").sessions) = 2


\* C38: while the refresh that returned last is one whose query failed and
\* fewer than 5 seconds have passed since it began, a refreshSessions(false)
\* does not get past the gate: it returns without a discovery query.
C38_CooldownAfterFailure ==
    [][(/\ lastRefresh.queried
        /\ lastRefresh.err
        /\ now - lastRefresh.at < minTimeBetweenSessionRefreshes
        /\ refreshCall["reload"].pc = "idle")
          => refreshCall'["reload"].pc = "idle"]_vars

\* C38, its case: the only refresh made so far began at least a second after
\* the start, its query failed and left the map empty, and a
\* refreshSessions(false) issued less than 5 seconds after it began has
\* returned without a query.
C38_GatedAfterFailedQuery ==
    /\ RefreshesFinished
    /\ nQueries = 2
    /\ m = EmptyMap
    /\ lastSessionRefresh > 0
    /\ lastRefresh.caller = "reload"
    /\ ~lastRefresh.queried
    /\ lastRefresh.at > lastSessionRefresh
    /\ lastRefresh.at - lastSessionRefresh < minTimeBetweenSessionRefreshes


\* C39 (as stated): at most one readLoop is live on the SerialIO, and
\* sio.connected is set only while a readLoop is live and sio.conn is a
\* connection that has not been closed, whatever the interleaving of Start,
\* Stop, a read failure and the reconnect.
C39_OneDecodeLoop ==
    /\ reconnect.loops <= 1
    /\ connected => (reconnect.loops >= 1 /\ conn \in reconnect.open)

\* C39 witness: run's Start and the reconnect's Start have both opened a
\* port; two readLoops are live and two ports are held open.
C39_TwoDecodeLoops ==
    /\ reconnect.loops = 2
    /\ reconnect.open = Ports
    /\ reconnect.run = "returned"


\* the line most recently read has reset the cache and produced one event for
\* every slider, each carrying the slider's value on that line
AllSlidersReported ==
    LET fields == WireFields(lastLine)
    IN  /\ lastKnownNumSliders = Len(fields)
        /\ Len(currentSliderPercentValues) = Len(fields)
        /\ lastEvents = [i \in 1..Len(fields) |->
                            SliderMoveEvent(i - 1, ScaledField(fields[i]))]

\* C40: once a reload's delayed reset has set the last-seen field count to 0,
\* the next valid line read resets the cached values and yields one event for
\* every slider, whatever the lines before it were.
C40_EventForEverySliderAfterReload ==
    [][(/\ reconnect.reset = "done"
        /\ lastKnownNumSliders = 0
        /\ \E wire \in WireLines : WireValid(wire) /\ ReadLine(wire))
       => AllSlidersReported']_vars

\* C40, the failing run: "512|1023" CR LF was read, the configuration was
\* reloaded and the reset made, and the same line was read again: it produced
\* no event and cached nothing.
C40_NoEventAfterReload ==
    /\ reconnect.reset = "done"
    /\ reconnect.resetAfter = <<"512|1023\r\n", 1>>
    /\ lastLine = "512|1023\r\n"
    /\ lastRepeat = 2
    /\ lastEvents = <<>>
    /\ currentSliderPercentValues = <<>>

=============================================================================
